---- MODULE Spec2Model ----
(***************************************************************************)
(* A model of the AIX tensor library:                                      *)
(*   - the Metal backend's command batching, deferred-free list and        *)
(*     buffer cache (aixDeviceMetal.cpp), specification Spec;              *)
(*   - TensorValue shape/stride bookkeeping and the autograd graph         *)
(*     (aix.hpp), specifications SpecValue and SpecGraph.                  *)
(***************************************************************************)
EXTENDS Integers, Sequences, FiniteSets, TLC

VARIABLES metal, owned, lastOp, nodes, exc, junk, passes, vals

vars == <<metal, owned, lastOp, nodes, exc, junk, passes, vals>>

\* The variables of the Metal backend, of the autograd graph and of the
\* TensorValue specification.
metalVars == <<metal, owned>>
graphVars == <<nodes, exc, junk, passes>>
valueVars == <<vals>>

(***************************************************************************)
(* Bounds of the model.                                                    *)
(***************************************************************************)
\* Number of MTL buffers the allocator's heap can hold at one time.
NumBufs == 2
\* Largest byte count a caller asks allocate() for.
MaxReqSize == 3
\* Scaled-down MAX_CMD_BATCH_SIZE (declared in aixDeviceMetal.hpp).
MAX_CMD_BATCH_SIZE == 2
\* Scaled-down ALLOCATION_BYTE_ALIGNMENT_SIZE (aixDeviceMetal.hpp).
ALLOCATION_BYTE_ALIGNMENT_SIZE == 4
\* Scaled-down vm_page_size (operating system constant).
vm_page_size == 8
\* The threads of a threadgroup, in elements of the model.
MAX_THREADS_PER_THREADGROUP == 4
\* Scaled-down m_maxWorkingSetSize (a share of the device's recommendation).
m_maxWorkingSetSize == 12

\* The model stops allocating once m_currentWorkingSetSize, which only a
\* commit of a non-empty batch resets, has grown past this value.
MaxWorkingSetCount == 8

BufIds == 1..NumBufs
\* The null MTL::Buffer* / null content pointer.
nil == 0
\* A source address that is not memory of this device.
HostPtr == -1

\* The data types the Metal backend distinguishes in the modelled operations:
\* kFloat64 has only null-kernel pipeline entries, kFloat32 has real ones.
MetalDTypes == {"kFloat64", "kFloat32"}

(***************************************************************************)
(* Small helpers.                                                          *)
(***************************************************************************)
RECURSIVE SumOver(_, _)
SumOver(S, f) ==
    IF S = {} THEN 0
    ELSE LET x == CHOOSE y \in S : TRUE IN f[x] + SumOver(S \ {x}, f)

align(size, alignment) == ((size + alignment - 1) \div alignment) * alignment

(***************************************************************************)
(* MTLBufferCache and MetalAllocator (aixDeviceMetalCache.hpp, not among   *)
(* the sources): modelled from the design's description.                   *)
(***************************************************************************)
\* recycle(buf): the buffer returns to the pool of free buffers.
CacheRecycle(d, b) == [d EXCEPT !.cache = @ \cup {b}]

\* reuse(size): a cached buffer of at least that size (tightest fit), or nil.
CacheReuseBuf(d, asize) ==
    LET fit == {b \in d.cache : d.heap[b] >= asize}
    IN  IF fit = {} THEN nil
        ELSE CHOOSE b \in fit : \A c \in fit :
                 d.heap[b] < d.heap[c] \/ (d.heap[b] = d.heap[c] /\ b <= c)

\* clear(): every cached buffer is released to the heap.
CacheClear(d) ==
    [d EXCEPT !.heap = [b \in BufIds |-> IF b \in d.cache THEN 0 ELSE d.heap[b]],
              !.cache = {}]

CacheSize(d) == SumOver(d.cache, d.heap)

\* reduceSize(bytes): evict the largest entries until `bytes` have been freed.
RECURSIVE CacheReduceSize(_, _)
CacheReduceSize(d, bytes) ==
    IF bytes <= 0 \/ d.cache = {} THEN d
    ELSE LET b == CHOOSE x \in d.cache : \A c \in d.cache :
                      d.heap[x] > d.heap[c] \/ (d.heap[x] = d.heap[c] /\ x <= c)
         IN  CacheReduceSize([d EXCEPT !.heap[b] = 0, !.cache = @ \ {b}],
                             bytes - d.heap[b])

\* alloc(asize): a buffer of the heap that is not live, or nil when it is full.
AllocatorAlloc(d, asize) ==
    LET free == {b \in BufIds : d.heap[b] = 0}
    IN  IF free = {} THEN nil ELSE CHOOSE b \in free : \A c \in free : b <= c

(***************************************************************************)
(* DeviceMetal.                                                            *)
(***************************************************************************)
isDeviceBuffer(d, ptr) == ptr \in d.m_allocMap

\* The completion handler commit() registers: recycle every captured buffer.
\* (m_tempBuffers is a vector; the order of its entries has no effect on the
\* cache, so the model keeps the set of its entries.)
RECURSIVE CompletedHandler(_, _)
CompletedHandler(d, tempBuffers) ==
    IF tempBuffers = {} THEN d
    ELSE LET b == CHOOSE x \in tempBuffers : TRUE
         IN  CompletedHandler(CacheRecycle(d, b), tempBuffers \ {b})

\* The GPU finishes the oldest committed command buffer; its handler runs.
CompleteHead(d) ==
    LET cb == Head(d.queue)
    IN  CompletedHandler([d EXCEPT !.queue = Tail(@)], cb.tempBuffers)

RECURSIVE CompleteAll(_)
CompleteAll(d) == IF d.queue = <<>> THEN d ELSE CompleteAll(CompleteHead(d))

\* m_committedCmdBuffer->waitUntilCompleted(): the caller blocks until the
\* last committed buffer (the newest of the queue) has completed; sending the
\* message to a null command buffer does nothing.
WaitUntilCompleted(d) ==
    IF ~d.m_committedCmdBuffer THEN d ELSE CompleteAll(d)

\* The body of commit() after its wait: the current command buffer is
\* committed with a completion handler that owns the deferred-free list, the
\* list's entries leave m_allocMap, the cache is trimmed, and an empty command
\* buffer with a new encoder becomes current.
commitCurrent(d) ==
    LET d2 == [d EXCEPT
                 !.queue = Append(@, [refs |-> d.cmdRefs,
                                      tempBuffers |-> d.m_tempBuffers,
                                      dispatches |-> d.cmdCount]),
                 !.m_allocMap = @ \ d.m_tempBuffers]
        d3 == IF CacheSize(d2) > m_maxWorkingSetSize
              THEN CacheReduceSize(d2, CacheSize(d2) - m_maxWorkingSetSize)
              ELSE d2
    IN  [d3 EXCEPT !.m_tempBuffers = {},
                   !.m_committedCmdBuffer = TRUE,
                   !.cmdRefs = {},
                   !.cmdCount = 0,
                   !.m_currentBatchSize = 0,
                   !.m_currentWorkingSetSize = 0]

\* commit() without the wait for the previously committed command buffer.
commitWithoutWait(d) ==
    IF d.m_currentBatchSize = 0 THEN d ELSE commitCurrent(d)

commit(d) ==
    IF d.m_currentBatchSize = 0 THEN d
    ELSE commitCurrent(WaitUntilCompleted(d))

\* synchronize() without the wait for the committed command buffer.
synchronizeWithoutWait(d) == commit(d)

synchronize(d) == WaitUntilCompleted(commit(d))

\* commitBatchQueue() that commits on every dispatch.
commitEveryDispatch(d) == commit([d EXCEPT !.m_currentBatchSize = @ + 1])

\* commitBatchQueue() that commits only after the counter has passed the limit.
commitBatchQueueLate(d) ==
    LET d1 == [d EXCEPT !.m_currentBatchSize = @ + 1]
    IN  IF d1.m_currentBatchSize > MAX_CMD_BATCH_SIZE THEN commit(d1) ELSE d1

commitBatchQueue(d) ==
    LET d1 == [d EXCEPT !.m_currentBatchSize = @ + 1]
    IN  IF d1.m_currentBatchSize >= MAX_CMD_BATCH_SIZE THEN commit(d1) ELSE d1

\* newBuffer(size): the result is the device state and the buffer, nil when
\* the allocation failed (std::runtime_error).
newBuffer(d, size) ==
    LET asize == IF size < vm_page_size
                 THEN align(size, ALLOCATION_BYTE_ALIGNMENT_SIZE)
                 ELSE align(size, vm_page_size)
        d1 == [d EXCEPT !.m_currentWorkingSetSize = @ + asize]
        d2 == IF d1.m_currentWorkingSetSize * 2 >= m_maxWorkingSetSize
              THEN commit(d1) ELSE d1
        reused == CacheReuseBuf(d2, asize)
        fresh  == AllocatorAlloc(d2, asize)
        d3 == CacheClear(d2)
        fresh2 == AllocatorAlloc(d3, asize)
    IN  IF reused # nil
        THEN [dev |-> [d2 EXCEPT !.cache = @ \ {reused}], buf |-> reused]
        ELSE IF fresh # nil
        THEN [dev |-> [d2 EXCEPT !.heap[fresh] = asize], buf |-> fresh]
        ELSE IF fresh2 # nil
        THEN [dev |-> [d3 EXCEPT !.heap[fresh2] = asize], buf |-> fresh2]
        ELSE [dev |-> [d3 EXCEPT !.threw = "runtime_error"], buf |-> nil]

\* getReadOnlyMTLBuffer(address, ...): a device address maps to its buffer, any
\* other address is copied into a new temporary buffer.
getReadOnlyMTLBuffer(d, address, size) ==
    IF ~isDeviceBuffer(d, address)
    THEN newBuffer(d, size)
    ELSE [dev |-> d, buf |-> address]

freeTemporaryBufferNow(d, buffer) ==
    IF buffer # nil /\ ~isDeviceBuffer(d, buffer)
    THEN CacheRecycle(d, buffer)
    ELSE d

freeTemporaryBuffer(d, buffer) ==
    IF buffer # nil /\ ~isDeviceBuffer(d, buffer)
    THEN [d EXCEPT !.m_tempBuffers = @ \cup {buffer}]
    ELSE d

\* The pipeline-table entry of a kernel for a dtype (or a pair of dtypes) is
\* the null-kernel stub exactly when a dtype is kFloat64.
isNullPSO(dtypes) == "kFloat64" \in dtypes

\* One compute dispatch on the current encoder, binding the given buffers.
encode(d, bufs, psoIsNull) ==
    [d EXCEPT !.cmdRefs = @ \cup (bufs \ {nil}),
              !.cmdCount = @ + 1,
              !.nullDispatched = @ \/ psoIsNull]

\* validateDataType() that accepts every data type.
validateNoDataType(d, dtype) == d

validateDataType(d, dtype) ==
    IF dtype = "kFloat64" THEN [d EXCEPT !.threw = "invalid_argument"] ELSE d

Throws(d) == d.threw # "none"

\* DeviceMetal::copy.
copy(d, src, srcDType, dst, dstDType, size) ==
    LET v1 == validateDataType(d, srcDType)
        v2 == validateDataType(v1, dstDType)
        r  == getReadOnlyMTLBuffer(v2, src, size)
    IN  IF Throws(v1) THEN v1
        ELSE IF Throws(v2) THEN v2
        ELSE IF ~isDeviceBuffer(v2, dst)
        THEN [v2 EXCEPT !.threw = "invalid_argument"]
        ELSE IF r.buf = nil THEN r.dev
        ELSE commitBatchQueue(
                 freeTemporaryBuffer(
                     encode(r.dev, {r.buf, dst}, isNullPSO({srcDType, dstDType})),
                     r.buf))

\* DeviceMetal::copyImmediate.
copyImmediate(d, src, srcDType, dst, dstDType, size) ==
    LET c == copy(d, src, srcDType, dst, dstDType, size)
    IN  IF Throws(c) THEN c ELSE synchronize(c)

\* DeviceMetal::executeTripleArrayCmd, the body of add, sub, mul, div and pow.
executeTripleArrayCmd(d, a1, a2, result, dtype, size) ==
    LET v  == validateDataType(d, dtype)
        r1 == getReadOnlyMTLBuffer(v, a1, size)
        r2 == getReadOnlyMTLBuffer(r1.dev, a2, size)
    IN  IF Throws(v) THEN v
        ELSE IF ~isDeviceBuffer(v, result)
        THEN [v EXCEPT !.threw = "invalid_argument"]
        ELSE IF r1.buf = nil THEN r1.dev
        ELSE IF r2.buf = nil THEN r2.dev
        ELSE commitBatchQueue(
                 freeTemporaryBuffer(
                     freeTemporaryBuffer(
                         encode(r2.dev, {r1.buf, r2.buf, result}, isNullPSO({dtype})),
                         r1.buf),
                     r2.buf))

\* DeviceMetal::allocate(size): the state and the content pointer (nil: threw).
allocate(d, size) ==
    LET r == newBuffer(d, size)
    IN  IF r.buf = nil THEN r
        ELSE [dev |-> [r.dev EXCEPT !.m_allocMap = @ \cup {r.buf}], buf |-> r.buf]

\* DeviceMetal::deallocate(memory).
deallocate(d, memory) ==
    IF ~isDeviceBuffer(d, memory)
    THEN [d EXCEPT !.threw = "invalid_argument"]
    ELSE [d EXCEPT !.m_tempBuffers = @ \cup {memory}]

\* The parallel reduction loop of sum and max: one dispatch on the temporary
\* buffer per round.
RECURSIVE ReductionLoop(_, _, _, _)
ReductionLoop(d, bufTemp, length, psoIsNull) ==
    IF length <= 0 THEN d
    ELSE ReductionLoop(commitBatchQueue(encode(d, {bufTemp}, psoIsNull)), bufTemp,
                       (length - 1) \div MAX_THREADS_PER_THREADGROUP, psoIsNull)

\* The end of sum and max, the copy to the result buffer being done.
ReduceFinish(c, buf1, bufTemp) ==
    IF Throws(c) THEN c
    ELSE deallocate(freeTemporaryBuffer(c, buf1), bufTemp)

\* sum and max, the copy to the temporary buffer being done: the rounds of
\* the reduction with the pipeline of the result data type, then the copy of
\* the first element to the result.
ReduceCopied(c, buf1, bufTemp, tempDType, result, resultDType, size) ==
    IF Throws(c) THEN c
    ELSE ReduceFinish(copy(ReductionLoop(c, bufTemp, size - 1, isNullPSO({resultDType})),
                           bufTemp, tempDType, result, resultDType, 1),
                      buf1, bufTemp)

\* sum and max, the temporary buffer being allocated.
ReduceWithTemp(rt, buf1, aDType, tempDType, result, resultDType, size) ==
    IF rt.buf = nil THEN rt.dev
    ELSE ReduceCopied(copy(rt.dev, buf1, aDType, rt.buf, tempDType, size),
                      buf1, rt.buf, tempDType, result, resultDType, size)

\* sum and max, the buffer of the operand being found.
ReduceWithSource(r1, aDType, tempDType, result, resultDType, size) ==
    IF r1.buf = nil THEN r1.dev
    ELSE ReduceWithTemp(allocate(r1.dev, r1.dev.heap[r1.buf]), r1.buf,
                        aDType, tempDType, result, resultDType, size)

\* The common body of DeviceMetal::sum and DeviceMetal::max; tempDType is the
\* data type the operand is copied to.
Reduce(d, a, aDType, tempDType, result, resultDType, size) ==
    IF ~isDeviceBuffer(d, result)
    THEN [d EXCEPT !.threw = "invalid_argument"]
    ELSE ReduceWithSource(getReadOnlyMTLBuffer(d, a, size),
                          aDType, tempDType, result, resultDType, size)

\* DeviceMetal::sum: the operand is converted to the result data type.
DeviceSum(d, a, aDType, result, resultDType, size) ==
    Reduce(d, a, aDType, resultDType, result, resultDType, size)

\* DeviceMetal::max: the operand keeps its data type in the temporary buffer.
DeviceMax(d, a, aDType, result, resultDType, size) ==
    Reduce(d, a, aDType, aDType, result, resultDType, size)

\* The data types an operation with a CPU fallback tells apart: kFloat64 is
\* rejected, kFloat32 has atomics on the GPU, kFloat16 has a kernel but no
\* atomics.
FallbackDTypes == {"kFloat64", "kFloat32", "kFloat16"}

\* The fallback without the synchronize() before the CPU kernel.
CpuFallbackUnsynchronized(d) == d

\* synchronize(); Device::op(...): the CPU kernel of the base class runs on the
\* contents of the buffers; it changes no state of the backend.
CpuFallback(d) == synchronize(d)

\* DeviceMetal::translation, the temporary buffers being found: one dispatch
\* binding the source, the result and the two shape buffers.
TranslationEncode(r3, bufSrc, bufShape1, dst, dtype) ==
    IF r3.dev.threw # "none" THEN r3.dev
    ELSE commitBatchQueue(
             freeTemporaryBuffer(
                 freeTemporaryBuffer(
                     freeTemporaryBuffer(
                         encode(r3.dev, {bufSrc, dst, bufShape1, r3.buf}, isNullPSO({dtype})),
                         bufSrc),
                     bufShape1),
                 r3.buf))

\* A shape vector of the host is copied to a temporary buffer; an empty one
\* gives the null buffer.
ShapeBuffer(d, shapeSize) ==
    IF shapeSize # 0 THEN newBuffer(d, shapeSize) ELSE [dev |-> d, buf |-> nil]

TranslationShape2(r2, bufSrc, dst, dtype, newShapeSize) ==
    IF r2.dev.threw # "none" THEN r2.dev
    ELSE TranslationEncode(ShapeBuffer(r2.dev, newShapeSize), bufSrc, r2.buf, dst, dtype)

TranslationShape1(r1, dst, dtype, shapeSize, newShapeSize) ==
    IF r1.buf = nil THEN r1.dev
    ELSE TranslationShape2(ShapeBuffer(r1.dev, shapeSize), r1.buf, dst, dtype, newShapeSize)

\* DeviceMetal::translation, the body of broadcastTo, reduceTo and maxTo on
\* the GPU.
translation(d, src, dst, size, shapeSize, newShapeSize, dtype) ==
    IF validateDataType(d, dtype).threw # "none" THEN validateDataType(d, dtype)
    ELSE IF ~isDeviceBuffer(d, dst) THEN [d EXCEPT !.threw = "invalid_argument"]
    ELSE IF shapeSize = 0 /\ newShapeSize = 0 THEN copy(d, src, dtype, dst, dtype, size)
    ELSE TranslationShape1(getReadOnlyMTLBuffer(d, src, size), dst, dtype,
                           shapeSize, newShapeSize)

\* The operation runs the CPU kernel: the data type is accepted and has no
\* atomics on the GPU.
FallsBack(dtype) == dtype # "kFloat64" /\ dtype # "kFloat32"

\* DeviceMetal::reduceTo (maxTo has the same body).
DeviceReduceTo(d, src, dst, size, shapeSize, newShapeSize, dtype) ==
    IF validateDataType(d, dtype).threw # "none" THEN validateDataType(d, dtype)
    ELSE IF FallsBack(dtype) THEN CpuFallback(d)
    ELSE translation(d, src, dst, size, shapeSize, newShapeSize, dtype)

\* DeviceMetal::argmax (argmaxIndices has the same body).
argmax(d, resultDType) ==
    IF resultDType # "kInt32" THEN [d EXCEPT !.threw = "invalid_argument"]
    ELSE CpuFallback(d)

(***************************************************************************)
(* The backend as a state machine: the caller's operations and the GPU.    *)
(***************************************************************************)
\* The state the constructor leaves: an empty command buffer with its
\* encoder, nothing committed, nothing allocated.
MetalInit ==
    [heap |-> [b \in BufIds |-> 0],
     m_allocMap |-> {},
     m_tempBuffers |-> {},
     cache |-> {},
     m_currentBatchSize |-> 0,
     m_currentWorkingSetSize |-> 0,
     cmdRefs |-> {},
     cmdCount |-> 0,
     nullDispatched |-> FALSE,
     queue |-> <<>>,
     m_committedCmdBuffer |-> FALSE,
     threw |-> "none"]

\* The device state at the entry of a caller's operation.
Enter == [metal EXCEPT !.threw = "none"]

MayAllocate == metal.m_currentWorkingSetSize <= MaxWorkingSetCount

NoOp == [op |-> "none", f64 |-> FALSE]

\* No tensor exists: the state of the graph and value variables while only
\* the backend is exercised.
NoTensors ==
    /\ nodes = <<>>
    /\ exc = "none"
    /\ junk = 0
    /\ passes = 0
    /\ vals = <<>>

Init ==
    /\ metal = MetalInit
    /\ owned = {}
    /\ lastOp = NoOp
    /\ NoTensors

\* The caller creates a buffer for a tensor (TensorValue's constructors).
Allocate ==
    /\ MayAllocate
    /\ \E size \in 1..MaxReqSize :
        LET r == allocate(Enter, size)
        IN  /\ metal' = r.dev
            /\ owned' = IF r.buf = nil THEN owned ELSE owned \cup {r.buf}
            /\ lastOp' = [op |-> "allocate", f64 |-> FALSE]
            /\ UNCHANGED <<graphVars, valueVars>>

\* The caller releases a tensor's buffer (TensorValue's destructor).
Deallocate ==
    \E p \in owned :
        /\ metal' = deallocate(Enter, p)
        /\ owned' = owned \ {p}
        /\ lastOp' = [op |-> "deallocate", f64 |-> FALSE]
        /\ UNCHANGED <<graphVars, valueVars>>

\* The elementwise operations work on tensors of one size: a temporary copy
\* of a host operand is as large as the result buffer.
Copy ==
    /\ MayAllocate
    /\ \E src \in owned \cup {HostPtr}, dst \in owned,
          srcDType \in MetalDTypes, dstDType \in MetalDTypes :
        /\ metal' = copy(Enter, src, srcDType, dst, dstDType, metal.heap[dst])
        /\ lastOp' = [op |-> "copy", f64 |-> "kFloat64" \in {srcDType, dstDType}]
        /\ UNCHANGED <<owned, graphVars, valueVars>>

CopyImmediate ==
    /\ MayAllocate
    /\ \E src \in owned \cup {HostPtr}, dst \in owned,
          srcDType \in MetalDTypes, dstDType \in MetalDTypes :
        /\ metal' = copyImmediate(Enter, src, srcDType, dst, dstDType, metal.heap[dst])
        /\ lastOp' = [op |-> "copyImmediate", f64 |-> "kFloat64" \in {srcDType, dstDType}]
        /\ UNCHANGED <<owned, graphVars, valueVars>>

Add ==
    /\ MayAllocate
    /\ \E a1 \in owned \cup {HostPtr}, a2 \in owned \cup {HostPtr}, result \in owned,
          dtype \in MetalDTypes :
        /\ metal' = executeTripleArrayCmd(Enter, a1, a2, result, dtype, metal.heap[result])
        /\ lastOp' = [op |-> "add", f64 |-> dtype = "kFloat64"]
        /\ UNCHANGED <<owned, graphVars, valueVars>>

Synchronize ==
    /\ metal' = synchronize(Enter)
    /\ lastOp' = [op |-> "synchronize", f64 |-> FALSE]
    /\ UNCHANGED <<owned, graphVars, valueVars>>

\* The GPU completes the oldest command buffer in flight.
GpuComplete ==
    /\ metal.queue # <<>>
    /\ metal' = CompleteHead(metal)
    /\ UNCHANGED <<owned, lastOp, graphVars, valueVars>>

Next ==
    \/ Allocate
    \/ Deallocate
    \/ Copy
    \/ CopyImmediate
    \/ Add
    \/ Synchronize
    \/ GpuComplete

Spec == Init /\ [][Next]_vars

\* The GPU completes every command buffer that was committed, and the caller
\* calls synchronize() again and again.
SpecFair == Spec /\ WF_vars(GpuComplete) /\ WF_vars(Synchronize)

\* The destructor of the backend: a warning when dispatches are queued, the
\* cache is cleared, the encoder ended and the pipelines, the command queue
\* and the device released; nothing waits for m_committedCmdBuffer.
Destroy ==
    /\ metal' = CacheClear(Enter)
    /\ lastOp' = [op |-> "destroy", f64 |-> FALSE]
    /\ UNCHANGED <<owned, graphVars, valueVars>>

\* The backend exists; no operation is called on a destroyed backend.
Constructed == lastOp.op # "destroy"

NextDestroy ==
    \/ Constructed /\ Allocate
    \/ Constructed /\ Deallocate
    \/ Constructed /\ Copy
    \/ Constructed /\ CopyImmediate
    \/ Constructed /\ Add
    \/ Constructed /\ Synchronize
    \/ Constructed /\ GpuComplete
    \/ Constructed /\ Destroy

SpecDestroy == Init /\ [][NextDestroy]_vars

\* The operations with a CPU kernel; lastOp tells whether the CPU kernel ran
\* and how much work was encoded or in flight when the operation was called.
ReduceTo ==
    /\ MayAllocate
    /\ \E src \in owned \cup {HostPtr}, dst \in owned, dtype \in FallbackDTypes,
          shapeSize \in 0..1, newShapeSize \in 0..1 :
        /\ metal' = DeviceReduceTo(Enter, src, dst, metal.heap[dst],
                                   shapeSize, newShapeSize, dtype)
        /\ lastOp' = [op |-> "reduceTo", f64 |-> dtype = "kFloat64",
                      cpu |-> FallsBack(dtype),
                      pending |-> metal.cmdCount + Len(metal.queue)]
        /\ UNCHANGED <<owned, graphVars, valueVars>>

Argmax ==
    \E resultDType \in {"kInt32", "kFloat32"} :
        /\ metal' = argmax(Enter, resultDType)
        /\ lastOp' = [op |-> "argmax", f64 |-> FALSE,
                      cpu |-> resultDType = "kInt32",
                      pending |-> metal.cmdCount + Len(metal.queue)]
        /\ UNCHANGED <<owned, graphVars, valueVars>>

NextFallback ==
    \/ Allocate
    \/ Deallocate
    \/ Copy
    \/ Add
    \/ ReduceTo
    \/ Argmax
    \/ GpuComplete

SpecFallback == Init /\ [][NextFallback]_vars

\* The reductions: a tensor of `size` elements at `a` is reduced to the first
\* element of `result`.
Sum ==
    /\ MayAllocate
    /\ \E a \in owned \cup {HostPtr}, result \in owned, size \in 1..MaxReqSize,
          aDType \in MetalDTypes, resultDType \in MetalDTypes :
        /\ metal' = DeviceSum(Enter, a, aDType, result, resultDType, size)
        /\ lastOp' = [op |-> "sum", f64 |-> "kFloat64" \in {aDType, resultDType}]
        /\ UNCHANGED <<owned, graphVars, valueVars>>

DeviceMaxOp ==
    /\ MayAllocate
    /\ \E a \in owned \cup {HostPtr}, result \in owned, size \in 1..MaxReqSize,
          aDType \in MetalDTypes, resultDType \in MetalDTypes :
        /\ metal' = DeviceMax(Enter, a, aDType, result, resultDType, size)
        /\ lastOp' = [op |-> "max", f64 |-> "kFloat64" \in {aDType, resultDType}]
        /\ UNCHANGED <<owned, graphVars, valueVars>>

NextReduce ==
    \/ Allocate
    \/ Deallocate
    \/ Sum
    \/ DeviceMaxOp
    \/ Synchronize
    \/ GpuComplete

SpecReduce == Init /\ [][NextReduce]_vars

(***************************************************************************)
(* TensorValue (aix.hpp).  A value is a record of the members m_dType,     *)
(* m_size, m_shape, m_strides and `data`, the contents of the m_data       *)
(* buffer (m_size elements).  Element values are small integers, which     *)
(* both float types represent exactly; indices are zero-based as in the    *)
(* code, sequences are one-based.                                          *)
(***************************************************************************)
DataTypes == {"kFloat64", "kFloat32"}

\* static_cast<size_t>(dtype): kFloat64 = 0, kFloat32 = 1.
DataTypeIndex(dtype) == IF dtype = "kFloat64" THEN 0 ELSE 1

promotionTable ==
    << <<"kFloat64", "kFloat64">>,
       <<"kFloat64", "kFloat32">> >>

\* A promotion that returns its first argument.
promoteToFirst(dtype1, dtype2) == dtype1

promoteDataType(dtype1, dtype2) ==
    promotionTable[DataTypeIndex(dtype1) + 1][DataTypeIndex(dtype2) + 1]

\* An exception leaving an operation.
Raise(what) == [err |-> what]
IsErr(v) == "err" \in DOMAIN v

\* std::accumulate(shape.begin(), shape.end(), 1, std::multiplies<>()).
RECURSIVE accumulate(_)
accumulate(shape) ==
    IF shape = <<>> THEN 1 ELSE Head(shape) * accumulate(Tail(shape))

RECURSIVE StridesLoop(_, _, _, _)
StridesLoop(shape, i, stride, strides) ==
    IF i < 1 THEN strides
    ELSE StridesLoop(shape, i - 1, stride * shape[i], [strides EXCEPT ![i] = stride])

computeStrides(shape) ==
    StridesLoop(shape, Len(shape), 1, [i \in 1..Len(shape) |-> 0])

\* The element at a zero-based index of a buffer; reading past the end of the
\* buffer yields whatever the adjacent memory holds.
At(data, k, junkValue) == IF k + 1 \in DOMAIN data THEN data[k + 1] ELSE junkValue

RECURSIVE TranslationLoop(_, _, _, _, _, _, _, _)
TranslationLoop(index, shape, newShape, i, j, originalIndex, targetStride, originalStride) ==
    IF i < 1 THEN originalIndex
    ELSE LET dimIndex == (index \div targetStride) % newShape[i]
             nextTarget == targetStride * newShape[i]
         IN  IF j >= 1 /\ shape[j] = newShape[i]
             THEN TranslationLoop(index, shape, newShape, i - 1, j - 1,
                                  originalIndex + dimIndex * originalStride,
                                  nextTarget, originalStride * shape[j])
             ELSE IF j >= 1 /\ shape[j] = 1
             THEN TranslationLoop(index, shape, newShape, i - 1, j - 1,
                                  originalIndex, nextTarget, originalStride * shape[j])
             ELSE TranslationLoop(index, shape, newShape, i - 1, j,
                                  originalIndex, nextTarget, originalStride)

translationIndex(index, shape, newShape) ==
    TranslationLoop(index, shape, newShape, Len(newShape), Len(shape), 0, 1, 1)

RECURSIVE flattenIndex(_, _)
flattenIndex(indices, strides) ==
    IF indices = <<>> THEN 0
    ELSE Head(indices) * Head(strides) + flattenIndex(Tail(indices), Tail(strides))

RECURSIVE unflattenIndex(_, _)
unflattenIndex(index, strides) ==
    IF strides = <<>> THEN <<>>
    ELSE <<index \div Head(strides)>>
         \o unflattenIndex(index % Head(strides), Tail(strides))

\* TensorValue(data, size, srcDType, shape, device, dType) and the
\* initializer-list constructor: m_size is the number of elements given.
TensorValueData(data, shape, dType) ==
    [m_dType |-> dType, m_size |-> Len(data), m_shape |-> shape,
     m_strides |-> computeStrides(shape), data |-> data]

\* TensorValue(value, shape, device, dType): filled with one value.
TensorValueFill(value, shape, dType) ==
    [m_dType |-> dType, m_size |-> accumulate(shape), m_shape |-> shape,
     m_strides |-> computeStrides(shape),
     data |-> [i \in 1..accumulate(shape) |-> value]]

\* TensorValue(shape, device, dType): the buffer is allocated, not written.
TensorValueShape(shape, dType, junkValue) == TensorValueFill(junkValue, shape, dType)

\* TensorValue(shape, device, size, strides, dType): members as given, the
\* buffer is allocated, not written.
TensorValueStrides(shape, size, strides, dType, junkValue) ==
    [m_dType |-> dType, m_size |-> size, m_shape |-> shape,
     m_strides |-> strides, data |-> [i \in 1..size |-> junkValue]]

\* The source of a move constructor / move assignment after the move.
MovedFrom(v) == [v EXCEPT !.m_size = 0, !.data = <<>>]

\* TensorValue::to.
to(v, newDataType) ==
    IF v.m_dType # newDataType
    THEN TensorValueData(v.data, v.m_shape, newDataType)
    ELSE v

\* TensorValue::reshape.
reshape(v, newShape) ==
    IF v.m_size # accumulate(newShape) THEN Raise("invalid_argument")
    ELSE TensorValueData(v.data, newShape, v.m_dType)

\* The dimension `k` places from the end of a shape (k = 0 is the last one),
\* 1 when the shape has no such dimension: the reverse iteration of the
\* broadcast checks.
DimFromEnd(shape, k) == IF k < Len(shape) THEN shape[Len(shape) - k] ELSE 1

MaxRank(shape1, shape2) == IF Len(shape1) >= Len(shape2) THEN Len(shape1) ELSE Len(shape2)

checkBroadcastShapes(shape1, shape2) ==
    \A k \in 0..(MaxRank(shape1, shape2) - 1) :
        LET dim1 == DimFromEnd(shape1, k)
            dim2 == DimFromEnd(shape2, k)
        IN  ~(dim1 # dim2 /\ dim1 # 1 /\ dim2 # 1)

\* The loop of broadcastShapes that pushes the dimension of the first shape.
RECURSIVE BroadcastShapesLoopFirst(_, _, _, _)
BroadcastShapesLoopFirst(shape1, shape2, k, resultShape) ==
    IF k >= MaxRank(shape1, shape2) THEN [err |-> "none", shape |-> resultShape]
    ELSE IF DimFromEnd(shape1, k) # DimFromEnd(shape2, k)
            /\ DimFromEnd(shape1, k) # 1 /\ DimFromEnd(shape2, k) # 1
    THEN [err |-> "invalid_argument", shape |-> <<>>]
    ELSE BroadcastShapesLoopFirst(shape1, shape2, k + 1,
                                  <<DimFromEnd(shape1, k)>> \o resultShape)

\* The loop of TensorValue::broadcastShapes from the last dimensions on, with
\* the reversal of the result: how it ended (err) and the result shape.
RECURSIVE BroadcastShapesLoop(_, _, _, _)
BroadcastShapesLoop(shape1, shape2, k, resultShape) ==
    IF k >= MaxRank(shape1, shape2) THEN [err |-> "none", shape |-> resultShape]
    ELSE IF DimFromEnd(shape1, k) # DimFromEnd(shape2, k)
            /\ DimFromEnd(shape1, k) # 1 /\ DimFromEnd(shape2, k) # 1
    THEN [err |-> "invalid_argument", shape |-> <<>>]
    ELSE BroadcastShapesLoop(shape1, shape2, k + 1,
                             <<IF DimFromEnd(shape1, k) >= DimFromEnd(shape2, k)
                               THEN DimFromEnd(shape1, k) ELSE DimFromEnd(shape2, k)>>
                             \o resultShape)

\* TensorValue::broadcastShapes: the result shape, or the exception (callers
\* tell the exception by checkBroadcastShapes, the condition of the throw).
broadcastShapes(shape1, shape2) ==
    IF BroadcastShapesLoop(shape1, shape2, 0, <<>>).err # "none"
    THEN Raise(BroadcastShapesLoop(shape1, shape2, 0, <<>>).err)
    ELSE BroadcastShapesLoop(shape1, shape2, 0, <<>>).shape

\* checkBroadcastTo without the comparison of the ranks and with the test of
\* checkBroadcastShapes.
checkBroadcastToEitherOne(sourceShape, targetShape) ==
    checkBroadcastShapes(sourceShape, targetShape)

checkBroadcastTo(sourceShape, targetShape) ==
    IF Len(sourceShape) > Len(targetShape) THEN FALSE
    ELSE \A k \in 0..(Len(targetShape) - 1) :
             LET dimSrc == DimFromEnd(sourceShape, k)
                 dimTgt == DimFromEnd(targetShape, k)
             IN  ~(dimSrc # dimTgt /\ dimSrc # 1)

\* Device::broadcastTo: every element of the result is read from the source.
broadcastToGeneric(v, resultShape, junkValue) ==
    [TensorValueShape(resultShape, v.m_dType, junkValue) EXCEPT !.data =
        [i \in 1..accumulate(resultShape) |->
            At(v.data, translationIndex(i - 1, v.m_shape, resultShape), junkValue)]]

\* TensorValue::broadcastTo.
broadcastTo(v, newShape, junkValue) ==
    IF ~checkBroadcastTo(v.m_shape, newShape) THEN Raise("invalid_argument")
    ELSE broadcastToGeneric(v, broadcastShapes(v.m_shape, newShape), junkValue)

RECURSIVE ReduceLoop(_, _, _, _, _, _)
ReduceLoop(src, dst, index, size, shape, newShape) ==
    IF index >= size THEN dst
    ELSE LET t == translationIndex(index, shape, newShape) + 1
         IN  ReduceLoop(src,
                        IF t \in DOMAIN dst THEN [dst EXCEPT ![t] = @ + src[index + 1]] ELSE dst,
                        index + 1, size, shape, newShape)

\* TensorValue::reduceTo with Device::reduceTo.
reduceTo(v, originalShape) ==
    LET result == TensorValueFill(0, originalShape, v.m_dType)
    IN  [result EXCEPT !.data =
            ReduceLoop(v.data, result.data, 0, v.m_size, v.m_shape, originalShape)]

\* The elementwise kernels of Device.
RECURSIVE Power(_, _)
Power(x, y) == IF y <= 0 THEN 1 ELSE x * Power(x, y - 1)

Kernel(op, x, y) ==
    CASE op = "add" -> x + y
      [] op = "mul" -> x * y
      [] op = "pow" -> Power(x, y)

\* The operands of an elementwise operation and its (unwritten) result.
Prepared(lhs, rhs, dType, junkValue) ==
    [lhs |-> lhs, rhs |-> rhs, result |-> TensorValueShape(lhs.m_shape, dType, junkValue)]

\* TensorValue::prepareTensors, the operands being of one data type: they are
\* broadcast if their shapes differ; the exception of broadcastShapes leaves.
prepareShapes(lhs, rhs, bcShape, junkValue) ==
    IF lhs.m_shape = rhs.m_shape THEN Prepared(lhs, rhs, lhs.m_dType, junkValue)
    ELSE IF ~checkBroadcastShapes(lhs.m_shape, rhs.m_shape) THEN bcShape
    ELSE Prepared(broadcastTo(lhs, bcShape, junkValue), broadcastTo(rhs, bcShape, junkValue),
                  lhs.m_dType, junkValue)

\* TensorValue::prepareTensors: the operands are converted to the promoted
\* data type if their data types differ, then broadcast.
prepareTensors(lhs, rhs, junkValue) ==
    IF lhs.m_dType # rhs.m_dType
    THEN prepareShapes(to(lhs, promoteDataType(lhs.m_dType, rhs.m_dType)),
                       to(rhs, promoteDataType(lhs.m_dType, rhs.m_dType)),
                       broadcastShapes(lhs.m_shape, rhs.m_shape), junkValue)
    ELSE prepareShapes(lhs, rhs, broadcastShapes(lhs.m_shape, rhs.m_shape), junkValue)

\* The kernel call of operator+ and operator*: it runs over the elements of
\* the left operand and writes the result.
ApplyKernel(op, p, junkValue) ==
    IF IsErr(p) THEN p
    ELSE [p.result EXCEPT !.data =
            [i \in 1..p.result.m_size |->
                IF i <= p.lhs.m_size
                THEN Kernel(op, p.lhs.data[i], At(p.rhs.data, i - 1, junkValue))
                ELSE junkValue]]

\* TensorValue::operator+ and operator*.
BinaryOp(op, a, b, junkValue) ==
    IF a.m_shape # b.m_shape \/ a.m_dType # b.m_dType
    THEN ApplyKernel(op, prepareTensors(a, b, junkValue), junkValue)
    ELSE ApplyKernel(op, Prepared(a, b, a.m_dType, junkValue), junkValue)

\* operator+= on operands that differ in shape or data type: *this becomes a
\* new value of the broadcast shape and the data type of *this.
AssignPrepared(this, p, junkValue) ==
    IF IsErr(p) THEN p
    ELSE TensorValueData(
             [i \in 1..p.lhs.m_size |-> p.lhs.data[i] + At(p.rhs.data, i - 1, junkValue)],
             p.lhs.m_shape, this.m_dType)

\* TensorValue::operator+=.
AddAssign(this, other, junkValue) ==
    IF this.m_shape # other.m_shape \/ this.m_dType # other.m_dType
    THEN AssignPrepared(this, prepareTensors(this, other, junkValue), junkValue)
    ELSE [this EXCEPT !.data =
             [i \in 1..this.m_size |-> this.data[i] + At(other.data, i - 1, junkValue)]]

\* operator-= on operands that differ in shape or data type: *this becomes a
\* new value of the broadcast shape and the data type of *this.
SubAssignPrepared(this, p, junkValue) ==
    IF IsErr(p) THEN p
    ELSE TensorValueData(
             [i \in 1..p.lhs.m_size |-> p.lhs.data[i] - At(p.rhs.data, i - 1, junkValue)],
             p.lhs.m_shape, this.m_dType)

\* TensorValue::operator-=.
SubAssign(this, other, junkValue) ==
    IF this.m_shape # other.m_shape \/ this.m_dType # other.m_dType
    THEN SubAssignPrepared(this, prepareTensors(this, other, junkValue), junkValue)
    ELSE [this EXCEPT !.data =
             [i \in 1..this.m_size |-> this.data[i] - At(other.data, i - 1, junkValue)]]

\* TensorValue::operator-=(float).
SubAssignScalar(this, scalar) ==
    [this EXCEPT !.data = [i \in 1..this.m_size |-> this.data[i] - scalar]]

\* TensorValue::operator*(float).
MulScalar(v, scalar, junkValue) ==
    [TensorValueShape(v.m_shape, v.m_dType, junkValue) EXCEPT !.data =
        [i \in 1..accumulate(v.m_shape) |->
            IF i <= v.m_size THEN v.data[i] * scalar ELSE junkValue]]

\* No swap of the two entries.
KeepDims(seq, dim0, dim1) == seq

\* std::swap of two entries of a vector (zero-based positions).
SwapDims(seq, dim0, dim1) ==
    [i \in 1..Len(seq) |->
        IF i = dim0 + 1 THEN seq[dim1 + 1]
        ELSE IF i = dim1 + 1 THEN seq[dim0 + 1]
        ELSE seq[i]]

RECURSIVE TransposeLoop(_, _, _, _, _, _, _, _)
TransposeLoop(src, res, i, size, dim0, dim1, strides, newStrides) ==
    IF i >= size THEN res
    ELSE LET oldIndices == SwapDims(unflattenIndex(i, strides), dim0, dim1)
             newIndex == flattenIndex(oldIndices, newStrides) + 1
         IN  TransposeLoop(src,
                           IF newIndex \in DOMAIN res /\ i + 1 \in DOMAIN src
                           THEN [res EXCEPT ![newIndex] = src[i + 1]] ELSE res,
                           i + 1, size, dim0, dim1, strides, newStrides)

\* TensorValue::transpose with Device::transposeGeneric.
transpose(v, dim0, dim1, junkValue) ==
    IF dim0 >= Len(v.m_shape) \/ dim1 >= Len(v.m_shape) THEN Raise("invalid_argument")
    ELSE LET result == TensorValueShape(SwapDims(v.m_shape, dim0, dim1), v.m_dType, junkValue)
         IN  [result EXCEPT !.data =
                 TransposeLoop(v.data, result.data, 0, result.m_size, dim0, dim1,
                               v.m_strides, result.m_strides)]

RECURSIVE SumLoop(_, _, _)
SumLoop(data, i, size) ==
    IF i >= size THEN 0 ELSE data[i + 1] + SumLoop(data, i + 1, size)

\* TensorValue::sum.
sum(v) ==
    [TensorValueShape(<<>>, v.m_dType, 0) EXCEPT !.data = <<SumLoop(v.data, 0, v.m_size)>>]

\* TensorValue::matmul with Device::matmul (operands of one data type convert
\* to themselves).
matmul(a, b, junkValue) ==
    IF Len(a.m_shape) # 2 \/ Len(b.m_shape) # 2 THEN Raise("invalid_argument")
    ELSE IF a.m_shape[2] # b.m_shape[1] THEN Raise("invalid_argument")
    ELSE LET m == a.m_shape[1]
             n == b.m_shape[2]
             inner == a.m_shape[2]
             lhs == to(a, promoteDataType(a.m_dType, b.m_dType))
             rhs == to(b, promoteDataType(a.m_dType, b.m_dType))
             result == TensorValueShape(<<m, n>>, lhs.m_dType, junkValue)
         IN  [result EXCEPT !.data =
                 [x \in 1..(m * n) |->
                     LET i == (x - 1) \div n
                         j == (x - 1) % n
                     IN  SumLoop([k \in 1..inner |->
                                     At(lhs.data, i * inner + (k - 1), junkValue)
                                     * At(rhs.data, (k - 1) * n + j, junkValue)],
                                 0, inner)]]

(***************************************************************************)
(* The calls of Device::allocate an operation of TensorValue has made when *)
(* it returns or leaves by an exception: one per TensorValue constructed,  *)
(* copies included (a move takes the buffer of its source).                *)
(***************************************************************************)
reshapeAllocs(v, newShape) == IF v.m_size # accumulate(newShape) THEN 0 ELSE 1

\* Either branch of to() constructs one value.
toAllocs(v, newDataType) == 1

broadcastToAllocs(v, newShape) == IF ~checkBroadcastTo(v.m_shape, newShape) THEN 0 ELSE 1

\* prepareTensors: two conversions if the data types differ, then
\* broadcastShapes may throw, then two broadcasts and the result.
prepareTensorsAllocs(lhs, rhs) ==
    (IF lhs.m_dType # rhs.m_dType THEN 2 ELSE 0)
    + (IF lhs.m_shape = rhs.m_shape THEN 1
       ELSE IF ~checkBroadcastShapes(lhs.m_shape, rhs.m_shape) THEN 0
       ELSE 3)

\* operator+ and operator*: the copies lhs and rhs are made before
\* prepareTensors is called.
BinaryOpAllocs(a, b) ==
    IF a.m_shape # b.m_shape \/ a.m_dType # b.m_dType
    THEN 2 + prepareTensorsAllocs(a, b)
    ELSE 1

\* operator+=: the copies, prepareTensors, and the value assigned to *this.
AddAssignAllocs(this, other) ==
    IF this.m_shape # other.m_shape \/ this.m_dType # other.m_dType
    THEN 2 + prepareTensorsAllocs(this, other)
           + (IF this.m_shape # other.m_shape
                 /\ ~checkBroadcastShapes(this.m_shape, other.m_shape) THEN 0 ELSE 1)
    ELSE 0

matmulAllocs(a, b) ==
    IF Len(a.m_shape) # 2 \/ Len(b.m_shape) # 2 THEN 0
    ELSE IF a.m_shape[2] # b.m_shape[1] THEN 0
    ELSE IF a.m_dType # b.m_dType THEN 5
    ELSE 1

transposeAllocs(v, dim0, dim1) ==
    IF dim0 >= Len(v.m_shape) \/ dim1 >= Len(v.m_shape) THEN 0 ELSE 1

(***************************************************************************)
(* TensorNode and Tensor (aix.hpp).  The graph is the sequence of the      *)
(* nodes built so far; a shared_ptr<TensorNode> is a position in it, 0 the *)
(* null pointer.  `handle` marks the nodes the caller holds a Tensor for.   *)
(***************************************************************************)
\* TensorNode(value, requireGrad): m_grad takes the members of the value, its
\* buffer is not written.
TensorNodeOfValue(value, requireGrad, junkValue) ==
    [m_value |-> value,
     m_grad |-> TensorValueStrides(value.m_shape, value.m_size, value.m_strides,
                                   value.m_dType, junkValue),
     m_requireGrad |-> requireGrad, m_retainGrad |-> FALSE,
     m_a |-> 0, m_b |-> 0, m_dim0 |-> 0, m_dim1 |-> 0,
     m_backwardFunc |-> "defaultBackward", handle |-> FALSE]

\* TensorNode(shape, device, requireGrad, dType).
TensorNodeOfShape(shape, requireGrad, dType, junkValue) ==
    TensorNodeOfValue(TensorValueShape(shape, dType, junkValue), requireGrad, junkValue)

\* Tensor(data, size, srcDType, shape, requireGrad, dType, device).
TensorOfData(data, shape, requireGrad, dType, junkValue) ==
    TensorNodeOfValue(TensorValueData(data, shape, dType), requireGrad, junkValue)

\* A graph with one more node: the new graph and the node's position.
Appended(ns, node) == [nodes |-> Append(ns, node), h |-> Len(ns) + 1]

\* Tensor::broadcastTo, the value being broadcast: the result keeps the
\* reference to the original node.
BroadcastNode(ns, t, tValue, junkValue) ==
    IF IsErr(tValue) THEN tValue
    ELSE Appended(ns, [TensorOfData(tValue.data, tValue.m_shape, ns[t].m_requireGrad,
                                    ns[t].m_value.m_dType, junkValue)
                       EXCEPT !.m_a = t, !.m_backwardFunc = "broadcastBackwardFunc"])

\* Tensor::broadcastTo.
TensorBroadcastTo(ns, t, newShape, junkValue) ==
    BroadcastNode(ns, t, broadcastTo(ns[t].m_value, newShape, junkValue), junkValue)

\* Tensor::to(DataType).
TensorTo(ns, t, newDataType, junkValue) ==
    IF ns[t].m_value.m_dType # newDataType
    THEN Appended(ns, [TensorOfData(ns[t].m_value.data, ns[t].m_value.m_shape,
                                    ns[t].m_requireGrad, newDataType, junkValue)
                       EXCEPT !.m_a = t, !.m_backwardFunc = "toBackwardFunc"])
    ELSE [nodes |-> ns, h |-> t]

\* Tensor::broadcastShape.
broadcastShape(ns, t, otherShape) ==
    IF ns[t].m_value.m_shape = otherShape THEN otherShape
    ELSE broadcastShapes(ns[t].m_value.m_shape, otherShape)

\* broadcastTo(bcShape).to(promotedDType) of an operand.
Operand(b, promotedDType, junkValue) == TensorTo(b.nodes, b.h, promotedDType, junkValue)

\* Tensor::operator+, operator* and pow, the operands being prepared: the
\* result node is built with the shape (pow: the broadcast shape, which is the
\* shape of lhs) and the data type of the left operand and with the flag the
\* operation passes (pow: isRequireGrad() of the base), then its value is
\* assigned.
BinaryResult(ns, op, t, other, lhs, rhs, value, junkValue) ==
    IF IsErr(value) THEN value
    ELSE Appended(rhs.nodes,
                  [TensorNodeOfShape(IF op = "pow" THEN rhs.nodes[lhs.h].m_value.m_shape
                                     ELSE ns[t].m_value.m_shape,
                                     IF op = "pow" THEN ns[t].m_requireGrad
                                     ELSE ns[t].m_requireGrad \/ ns[other].m_requireGrad,
                                     ns[t].m_value.m_dType, junkValue)
                   EXCEPT !.m_value = value, !.m_a = lhs.h, !.m_b = rhs.h,
                          !.m_backwardFunc = op \o "BackwardFunc", !.handle = TRUE])

BinaryOperands(ns, op, t, other, lhs, rhs, junkValue) ==
    BinaryResult(ns, op, t, other, lhs, rhs,
                 BinaryOp(op, rhs.nodes[lhs.h].m_value, rhs.nodes[rhs.h].m_value, junkValue),
                 junkValue)

BinaryLhs(ns, op, t, other, promotedDType, bcShape, lhs, junkValue) ==
    BinaryOperands(ns, op, t, other, lhs,
                   Operand(TensorBroadcastTo(lhs.nodes, other, bcShape, junkValue),
                           promotedDType, junkValue),
                   junkValue)

BinaryShape(ns, op, t, other, promotedDType, bcShape, junkValue) ==
    IF ~checkBroadcastShapes(ns[t].m_value.m_shape, ns[other].m_value.m_shape) THEN bcShape
    ELSE BinaryLhs(ns, op, t, other, promotedDType, bcShape,
                   Operand(TensorBroadcastTo(ns, t, bcShape, junkValue),
                           promotedDType, junkValue),
                   junkValue)

\* Tensor::operator+, operator* and pow.
TensorBinary(ns, op, t, other, junkValue) ==
    BinaryShape(ns, op, t, other,
                promoteDataType(ns[t].m_value.m_dType, ns[other].m_value.m_dType),
                broadcastShape(ns, t, ns[other].m_value.m_shape), junkValue)

\* Tensor::transpose, the value being transposed: the result node is built with
\* the shape of the operand.
TransposeResult(ns, t, dim0, dim1, value, junkValue) ==
    IF IsErr(value) THEN value
    ELSE Appended(ns,
                  [TensorNodeOfShape(ns[t].m_value.m_shape, ns[t].m_requireGrad,
                                     ns[t].m_value.m_dType, junkValue)
                   EXCEPT !.m_value = value, !.m_a = t, !.m_dim0 = dim0, !.m_dim1 = dim1,
                          !.m_backwardFunc = "transposeBackwardFunc", !.handle = TRUE])

\* Tensor::transpose.
TensorTranspose(ns, t, dim0, dim1, junkValue) ==
    TransposeResult(ns, t, dim0, dim1, transpose(ns[t].m_value, dim0, dim1, junkValue),
                    junkValue)

\* Tensor::sum.
TensorSum(ns, t, junkValue) ==
    Appended(ns, [TensorNodeOfShape(<<>>, ns[t].m_requireGrad,
                                    ns[t].m_value.m_dType, junkValue)
                  EXCEPT !.m_value = sum(ns[t].m_value), !.m_a = t,
                         !.m_backwardFunc = "sumBackwardFunc", !.handle = TRUE])

\* The graph during a backward pass: the nodes, the exception in flight and
\* the nodes TensorNode::backward was called on, in the order of the calls.
Running(ns) == [nodes |-> ns, err |-> "none", trace |-> <<>>]

\* node->m_grad = seed: the grad is overwritten instead of accumulated.
AssignGrad(g, n, seed, junkValue) ==
    [g EXCEPT !.nodes[n].m_grad = seed]

\* The graph after m_grad += seed of node n gave r.
Accumulated(g, n, r) ==
    IF IsErr(r) THEN [g EXCEPT !.err = r.err]
    ELSE [g EXCEPT !.nodes[n].m_grad = r]

\* node->m_grad += seed.
AccumulateGrad(g, n, seed, junkValue) ==
    Accumulated(g, n, AddAssign(g.nodes[n].m_grad, seed, junkValue))

\* TensorNode::backward and the backward functions call each other.  An
\* exception unwinds the recursion (a graph with err set is passed through):
\* what was written before it stays written.
RECURSIVE backward(_, _, _, _)

\* defaultBackward without the test of m_retainGrad.
defaultBackwardUnguarded(g, n, seed, junkValue) ==
    IF g.nodes[n].m_requireGrad
    THEN AccumulateGrad(g, n, seed, junkValue)
    ELSE g

defaultBackward(g, n, seed, junkValue) ==
    IF g.nodes[n].m_requireGrad /\ ~g.nodes[n].m_retainGrad
    THEN AccumulateGrad(g, n, seed, junkValue)
    ELSE g

broadcastBackwardFunc(g, n, seed, junkValue) ==
    IF g.nodes[n].m_a = 0 THEN g
    ELSE backward(g, g.nodes[n].m_a,
                  reduceTo(seed, g.nodes[g.nodes[n].m_a].m_value.m_shape), junkValue)

toBackwardFunc(g, n, seed, junkValue) ==
    IF g.nodes[n].m_a = 0 THEN g
    ELSE backward(g, g.nodes[n].m_a,
                  to(seed, g.nodes[g.nodes[n].m_a].m_value.m_dType), junkValue)

addBackwardFunc(g, n, seed, junkValue) ==
    IF g.nodes[n].m_a = 0 \/ g.nodes[n].m_b = 0 THEN g
    ELSE backward(backward(g, g.nodes[n].m_a, seed, junkValue),
                  g.nodes[n].m_b, seed, junkValue)

mulBackwardFunc(g, n, seed, junkValue) ==
    IF g.nodes[n].m_a = 0 \/ g.nodes[n].m_b = 0 THEN g
    ELSE backward(backward(g, g.nodes[n].m_a,
                           BinaryOp("mul", g.nodes[g.nodes[n].m_b].m_value, seed, junkValue),
                           junkValue),
                  g.nodes[n].m_b,
                  BinaryOp("mul", g.nodes[g.nodes[n].m_a].m_value, seed, junkValue),
                  junkValue)

transposeBackwardFunc(g, n, seed, junkValue) ==
    IF g.nodes[n].m_a = 0 THEN g
    ELSE backward(g, g.nodes[n].m_a,
                  transpose(seed, g.nodes[n].m_dim0, g.nodes[n].m_dim1, junkValue), junkValue)

sumBackwardFunc(g, n, seed, junkValue) ==
    IF g.nodes[n].m_a = 0 THEN g
    ELSE backward(g, g.nodes[n].m_a, seed, junkValue)

\* node->m_backwardFunc(node, seed).
CallBackwardFunc(g, n, seed, junkValue) ==
    IF g.err # "none" THEN g
    ELSE CASE g.nodes[n].m_backwardFunc = "defaultBackward" -> defaultBackward(g, n, seed, junkValue)
           [] g.nodes[n].m_backwardFunc = "broadcastBackwardFunc" -> broadcastBackwardFunc(g, n, seed, junkValue)
           [] g.nodes[n].m_backwardFunc = "toBackwardFunc" -> toBackwardFunc(g, n, seed, junkValue)
           [] g.nodes[n].m_backwardFunc = "addBackwardFunc" -> addBackwardFunc(g, n, seed, junkValue)
           [] g.nodes[n].m_backwardFunc = "mulBackwardFunc" -> mulBackwardFunc(g, n, seed, junkValue)
           [] g.nodes[n].m_backwardFunc = "transposeBackwardFunc" -> transposeBackwardFunc(g, n, seed, junkValue)
           [] g.nodes[n].m_backwardFunc = "sumBackwardFunc" -> sumBackwardFunc(g, n, seed, junkValue)

\* The call is recorded in the trace.
Called(g, n) == [g EXCEPT !.trace = Append(@, n)]

\* TensorNode::backward accumulating the seed whatever m_retainGrad is.
backwardRetainAll(g, n, seed, junkValue) ==
    IF g.err # "none" THEN g
    ELSE IF IsErr(seed) THEN [g EXCEPT !.err = seed.err]
    ELSE CallBackwardFunc(AccumulateGrad(Called(g, n), n, seed, junkValue), n, seed, junkValue)

\* TensorNode::backward; the argument expression of the caller may have thrown.
backward(g, n, seed, junkValue) ==
    IF g.err # "none" THEN g
    ELSE IF IsErr(seed) THEN [g EXCEPT !.err = seed.err]
    ELSE IF g.nodes[n].m_retainGrad
    THEN CallBackwardFunc(AccumulateGrad(Called(g, n), n, seed, junkValue), n, seed, junkValue)
    ELSE CallBackwardFunc(Called(g, n), n, seed, junkValue)

\* Tensor::backward(value): the seed takes the shape of the grad of parent a;
\* a leaf has no parent a and the call dereferences a null pointer.
TensorBackward(ns, t, value, junkValue) ==
    IF ns[t].m_a = 0 THEN [Running(ns) EXCEPT !.err = "null_dereference"]
    ELSE backward(Running(ns), t,
                  TensorValueFill(value, ns[ns[t].m_a].m_grad.m_shape, ns[t].m_value.m_dType),
                  junkValue)

\* Tensor::backward(value, gradShape).
TensorBackwardShape(ns, t, value, gradShape, junkValue) ==
    backward(Running(ns), t,
             TensorValueFill(value, gradShape, ns[t].m_value.m_dType), junkValue)

\* Tensor::grad(): the exception it raises ("none": it returns m_grad).
TensorGrad(ns, t) ==
    IF ~ns[t].m_requireGrad /\ ~ns[t].m_retainGrad THEN "runtime_error" ELSE "none"

\* Tensor::retainGrad and Tensor::zeroGrad: m_grad.fill(0).
FillGrad(ns, t, value) ==
    [ns EXCEPT ![t].m_grad.data = [i \in 1..ns[t].m_grad.m_size |-> value]]

TensorRetainGrad(ns, t) == [FillGrad(ns, t, 0) EXCEPT ![t].m_retainGrad = TRUE]

TensorZeroGrad(ns, t) == FillGrad(ns, t, 0)

\* Optimizer::zeroGrad: zeroGrad() of every parameter.
RECURSIVE OptimizerZeroGrad(_, _)
OptimizerZeroGrad(ns, parameters) ==
    IF parameters = {} THEN ns
    ELSE LET t == CHOOSE p \in parameters : TRUE
         IN  OptimizerZeroGrad(TensorZeroGrad(ns, t), parameters \ {t})

\* t.value() -= r through one handle of the node: every handle is the same
\* position of the graph.  An exception leaves the value as it was.
ValueAssigned(g, t, r) ==
    IF IsErr(r) THEN [g EXCEPT !.err = r.err]
    ELSE [g EXCEPT !.nodes[t].m_value = r]

\* SGD::step: param.value() -= param.grad() * m_lr for the parameters that
\* require grad, in their order.
RECURSIVE SGDStep(_, _, _, _, _)
SGDStep(g, parameters, k, lr, junkValue) ==
    IF k > Len(g.nodes) \/ g.err # "none" THEN g
    ELSE IF k \in parameters /\ g.nodes[k].m_requireGrad
    THEN SGDStep(ValueAssigned(g, k,
                               SubAssign(g.nodes[k].m_value,
                                         MulScalar(g.nodes[k].m_grad, lr, junkValue),
                                         junkValue)),
                 parameters, k + 1, lr, junkValue)
    ELSE SGDStep(g, parameters, k + 1, lr, junkValue)

(***************************************************************************)
(* Programs over tensors: the caller builds leaves, applies operations,    *)
(* and runs backward passes (specifications SpecGraph and SpecShapes).     *)
(***************************************************************************)
\* Number of Tensor objects (leaves and op results) and of backward passes
\* of a program of SpecGraph and SpecGrad.
MaxTensors == 2
MaxPasses == 2
\* The same for a program of SpecShapes, and the number of its leaves.
MaxShapeTensors == 3
MaxShapePasses == 1
MaxShapeLeaves == 2

\* What a buffer that was allocated and never written may hold.
UninitValues == {0, 5}
\* First elements of the data of the first, second, ... leaf of a program; the
\* following elements count up (x = [1,2,3], y = [7,8,9,10,11,12], ...).
DataBases == <<1, 7, 13>>
\* Shapes of the leaves of SpecShapes, and the seed shapes passed to backward.
LeafShapes == {<<1, 3>>, <<2, 3>>, <<3, 1>>}
SeedShapes == {<<1, 3>>, <<2, 3>>, <<3, 1>>, <<3, 2>>}

Handles == {t \in 1..Len(nodes) : nodes[t].handle}

\* The parents reachable from a node, the node included.
RECURSIVE Ancestors(_, _)
Ancestors(ns, n) ==
    IF n = 0 THEN {}
    ELSE {n} \cup Ancestors(ns, ns[n].m_a) \cup Ancestors(ns, ns[n].m_b)

\* The tensors no other tensor was computed from: where backward is started.
Sinks == {t \in Handles : \A u \in Handles \ {t} : t \notin Ancestors(nodes, u)}
GradsOf(ns) == [i \in 1..Len(ns) |-> ns[i].m_grad]

\* lastOp after an operation no property refers to.
Other == [op |-> "other"]

NoDevice == metal = MetalInit /\ owned = {} /\ vals = <<>>

InitGraph ==
    /\ NoDevice
    /\ nodes = <<>>
    /\ exc = "none"
    /\ junk \in UninitValues
    /\ passes = 0
    /\ lastOp = Other

\* aix::tensor(data, shape, requireGrad, dtype).
NewLeaf(maxTensors, shapes, dtypes) ==
    /\ Cardinality(Handles) < maxTensors
    /\ \E shape \in shapes, dtype \in dtypes, requireGrad \in BOOLEAN :
        LET base == DataBases[(Cardinality(Handles) % Len(DataBases)) + 1]
            data == [i \in 1..accumulate(shape) |-> base + i - 1]
            node == [TensorOfData(data, shape, requireGrad, dtype, junk) EXCEPT !.handle = TRUE]
        IN  /\ nodes' = Append(nodes, node)
            /\ exc' = "none"
            /\ lastOp' = Other
    /\ UNCHANGED <<metalVars, valueVars, junk, passes>>

\* The outcome of a graph-building operation: the new graph, or the exception
\* and the graph as it was.
Built(r) ==
    /\ nodes' = IF IsErr(r) THEN nodes ELSE r.nodes
    /\ exc' = IF IsErr(r) THEN r.err ELSE "none"
    /\ lastOp' = Other
    /\ UNCHANGED <<metalVars, valueVars, junk, passes>>

\* z = x + y.
OpAdd(maxTensors) ==
    /\ Cardinality(Handles) < maxTensors
    /\ \E t \in Handles, other \in Handles :
        Built(TensorBinary(nodes, "add", t, other, junk))

\* z = x * y.
OpMul(maxTensors) ==
    /\ Cardinality(Handles) < maxTensors
    /\ \E t \in Handles, other \in Handles :
        Built(TensorBinary(nodes, "mul", t, other, junk))

\* z = x.pow(y).
OpPow(maxTensors) ==
    /\ Cardinality(Handles) < maxTensors
    /\ \E t \in Handles, other \in Handles :
        Built(TensorBinary(nodes, "pow", t, other, junk))

\* z = x.transpose(0, 1).
OpTranspose(maxTensors) ==
    /\ Cardinality(Handles) < maxTensors
    /\ \E t \in Handles : Built(TensorTranspose(nodes, t, 0, 1, junk))

\* z = x.sum().
OpSum(maxTensors) ==
    /\ Cardinality(Handles) < maxTensors
    /\ \E t \in Handles : Built(TensorSum(nodes, t, junk))

RetainGrad ==
    /\ \E t \in Handles : nodes' = TensorRetainGrad(nodes, t)
    /\ exc' = "none"
    /\ lastOp' = Other
    /\ UNCHANGED <<metalVars, valueVars, junk, passes>>

\* Optimizer::zeroGrad over the parameters, the leaves of the graph.
ZeroGrad ==
    /\ Handles # {}
    /\ nodes' = OptimizerZeroGrad(nodes, {t \in Handles : nodes[t].m_a = 0})
    /\ exc' = "none"
    /\ lastOp' = Other
    /\ UNCHANGED <<metalVars, valueVars, junk, passes>>

\* t.grad().
Grad ==
    /\ \E t \in Handles :
        /\ exc' = TensorGrad(nodes, t)
        /\ lastOp' = [op |-> "grad", t |-> t]
    /\ UNCHANGED <<metalVars, valueVars, nodes, junk, passes>>

\* The outcome of a backward pass; lastOp keeps the overload called, the sink,
\* the shape of the seed, the grads as they were before the pass and the order
\* of the calls of TensorNode::backward.
Passed(g, t, seedShape, overload) ==
    /\ nodes' = g.nodes
    /\ exc' = g.err
    /\ passes' = passes + 1
    /\ lastOp' = [op |-> "backward", overload |-> overload, t |-> t, seedShape |-> seedShape,
                  before |-> GradsOf(nodes), trace |-> g.trace]
    /\ UNCHANGED <<metalVars, valueVars, junk>>

\* t.backward().
Backward(maxPasses) ==
    /\ passes < maxPasses
    /\ \E t \in Sinks :
        Passed(TensorBackward(nodes, t, 1, junk), t,
               IF nodes[t].m_a = 0 THEN <<>> ELSE nodes[nodes[t].m_a].m_grad.m_shape,
               "backward(value)")

\* t.backward(1, gradShape).
BackwardShape(maxPasses, shapes) ==
    /\ passes < maxPasses
    /\ \E t \in Sinks, gradShape \in shapes :
        Passed(TensorBackwardShape(nodes, t, 1, gradShape, junk), t, gradShape,
               "backward(value, gradShape)")

\* Scalar expression graphs with shared subexpressions, backward passes and
\* zeroGrad between them.
NextGraph ==
    \/ NewLeaf(MaxTensors, {<<>>}, {"kFloat32"})
    \/ OpAdd(MaxTensors)
    \/ OpMul(MaxTensors)
    \/ RetainGrad
    \/ ZeroGrad
    \/ Backward(MaxPasses)
    \/ BackwardShape(MaxPasses, {<<>>})

SpecGraph == InitGraph /\ [][NextGraph]_vars

\* Scalar expression graphs and the accessor grad().
NextGrad ==
    \/ NewLeaf(MaxTensors, {<<>>}, {"kFloat32"})
    \/ OpAdd(MaxTensors)
    \/ OpMul(MaxTensors)
    \/ RetainGrad
    \/ Backward(MaxPasses)
    \/ Grad

SpecGrad == InitGraph /\ [][NextGrad]_vars

\* An in-place operation on values ran; lastOp keeps the nodes as they were.
\* A program does not run two of them in a row.
InPlace(g) ==
    /\ lastOp.op # "inplace"
    /\ nodes' = g.nodes
    /\ exc' = g.err
    /\ lastOp' = [op |-> "inplace", before |-> nodes]
    /\ UNCHANGED <<metalVars, valueVars, junk, passes>>

\* optimizer.step() of an SGD over the leaves, with learning rate 1.
Step ==
    /\ Handles # {}
    /\ InPlace(SGDStep(Running(nodes), {t \in Handles : nodes[t].m_a = 0}, 1, 1, junk))

\* t.value() -= 1.
SubScalar ==
    \E t \in Handles :
        InPlace(ValueAssigned(Running(nodes), t, SubAssignScalar(nodes[t].m_value, 1)))

\* t.value() -= u.value().
SubTensor ==
    \E t \in Handles, u \in Handles :
        InPlace(ValueAssigned(Running(nodes), t,
                              SubAssign(nodes[t].m_value, nodes[u].m_value, junk)))

\* Parameters of different shapes and data types, backward passes and
\* in-place updates of the values.
NextStep ==
    \/ NewLeaf(MaxShapeLeaves, LeafShapes, DataTypes)
    \/ BackwardShape(MaxShapePasses, SeedShapes)
    \/ Step
    \/ SubScalar
    \/ SubTensor

SpecStep == InitGraph /\ [][NextStep]_vars

\* Operations on tensors of different shapes and data types.
NextShapes ==
    \/ NewLeaf(MaxShapeLeaves, LeafShapes, DataTypes)
    \/ OpAdd(MaxShapeTensors)
    \/ OpMul(MaxShapeTensors)
    \/ OpTranspose(MaxShapeTensors)
    \/ OpSum(MaxShapeTensors)
    \/ Backward(MaxShapePasses)
    \/ BackwardShape(MaxShapePasses, SeedShapes)

SpecShapes == InitGraph /\ [][NextShapes]_vars

\* Graphs built with binary and unary operations over leaves that do or do
\* not require a gradient.
MaxFlagTensors == 3
FlagShapes == {<<>>, <<2>>}

NextFlags ==
    \/ NewLeaf(MaxFlagTensors, FlagShapes, {"kFloat32"})
    \/ OpAdd(MaxFlagTensors)
    \/ OpMul(MaxFlagTensors)
    \/ OpPow(MaxFlagTensors)
    \/ OpSum(MaxFlagTensors)

SpecFlags == InitGraph /\ [][NextFlags]_vars

(***************************************************************************)
(* Programs over tensor values: constructors and operations of TensorValue *)
(* (specification SpecValue).  Every statement of a program declares one   *)
(* more value.                                                             *)
(***************************************************************************)
\* Number of values a program declares, length of the longest data list.
MaxValues == 3
MaxDataLen == 4
ValueShapes == {<<>>, <<2>>, <<3>>, <<1, 2>>, <<2, 1>>, <<2, 2>>}

\* The value owns a buffer: m_data is not the null pointer.
HasBuffer(v) == v.data # <<>>
Operands == {i \in 1..Len(vals) : HasBuffer(vals[i])}

\* The statement declared the value r, or left with the exception after
\* `allocs` calls of Device::allocate, which lastOp keeps.
Declared(r, allocs) ==
    /\ Len(vals) < MaxValues
    /\ vals' = IF IsErr(r) THEN vals ELSE Append(vals, r)
    /\ exc' = IF IsErr(r) THEN r.err ELSE "none"
    /\ lastOp' = IF IsErr(r) THEN [op |-> "throw", allocs |-> allocs] ELSE Other
    /\ UNCHANGED <<metalVars, nodes, junk, passes>>

\* TensorValue v({1, 2, ...}, shape, &device).
ConstructData ==
    \E len \in 1..MaxDataLen, shape \in ValueShapes :
        Declared(TensorValueData([i \in 1..len |-> i], shape, "kFloat32"), 1)

\* TensorValue v(1, shape, &device).
ConstructFill ==
    \E shape \in ValueShapes : Declared(TensorValueFill(1, shape, "kFloat32"), 1)

\* TensorValue v(shape, &device).
ConstructShape ==
    \E shape \in ValueShapes : Declared(TensorValueShape(shape, "kFloat32", junk), 1)

ValueReshape ==
    \E i \in Operands, newShape \in ValueShapes : Declared(reshape(vals[i], newShape), reshapeAllocs(vals[i], newShape))

ValueTo ==
    \E i \in Operands, newDataType \in DataTypes : Declared(to(vals[i], newDataType), toAllocs(vals[i], newDataType))

ValueBroadcastTo ==
    \E i \in Operands, newShape \in ValueShapes :
        Declared(broadcastTo(vals[i], newShape, junk), broadcastToAllocs(vals[i], newShape))

ValueReduceTo ==
    \E i \in Operands, originalShape \in ValueShapes :
        Declared(reduceTo(vals[i], originalShape), 1)

ValueAdd ==
    \E i \in Operands, j \in Operands :
        Declared(BinaryOp("add", vals[i], vals[j], junk), BinaryOpAllocs(vals[i], vals[j]))

ValueMul ==
    \E i \in Operands, j \in Operands :
        Declared(BinaryOp("mul", vals[i], vals[j], junk), BinaryOpAllocs(vals[i], vals[j]))

\* TensorValue v(a); v += b.
ValueAddAssign ==
    \E i \in Operands, j \in Operands :
        Declared(AddAssign(vals[i], vals[j], junk), 1 + AddAssignAllocs(vals[i], vals[j]))

ValueMatmul ==
    \E i \in Operands, j \in Operands :
        Declared(matmul(vals[i], vals[j], junk), matmulAllocs(vals[i], vals[j]))

ValueTranspose ==
    \E i \in Operands : Declared(transpose(vals[i], 0, 1, junk), transposeAllocs(vals[i], 0, 1))

ValueSum ==
    \E i \in Operands : Declared(sum(vals[i]), 1)

\* TensorValue v(a): the copy constructor takes every member of the source.
ValueCopy ==
    \E i \in Operands : Declared(vals[i], 1)

\* TensorValue v(std::move(a)): v takes the members of a; a is left without
\* buffer and with size 0.
ValueMove ==
    /\ Len(vals) < MaxValues
    /\ \E i \in Operands :
        vals' = Append([vals EXCEPT ![i] = MovedFrom(vals[i])], vals[i])
    /\ exc' = "none"
    /\ lastOp' = Other
    /\ UNCHANGED <<metalVars, nodes, junk, passes>>

NextValue ==
    \/ ConstructData
    \/ ConstructFill
    \/ ConstructShape
    \/ ValueReshape
    \/ ValueTo
    \/ ValueBroadcastTo
    \/ ValueReduceTo
    \/ ValueAdd
    \/ ValueMul
    \/ ValueAddAssign
    \/ ValueMatmul
    \/ ValueTranspose
    \/ ValueSum
    \/ ValueCopy
    \/ ValueMove

SpecValue == InitGraph /\ [][NextValue]_vars

(***************************************************************************)
(* The functions of TensorValue on their own: two values a = vals[1] and   *)
(* b = vals[2] of any shape and data type are given, and a step applies    *)
(* one function to them and keeps what it returned in lastOp.              *)
(***************************************************************************)
MaxPureRank == 2
\* The sizes of a dimension: 1 broadcasts, 2 and 3 do not broadcast to each
\* other.
PureDims == {1, 2, 3}

PureShapes == UNION {[1..n -> PureDims] : n \in 0..MaxPureRank}

\* a holds 1, 2, 3, ... (aix::tensor(data, shape)), b is filled with 2.
InitPure ==
    /\ metal = MetalInit
    /\ owned = {}
    /\ nodes = <<>>
    /\ exc = "none"
    /\ junk \in UninitValues
    /\ passes = 0
    /\ lastOp = Other
    /\ \E shape1 \in PureShapes, shape2 \in PureShapes,
          dtype1 \in DataTypes, dtype2 \in DataTypes :
        vals = <<TensorValueData([i \in 1..accumulate(shape1) |-> i], shape1, dtype1),
                 TensorValueFill(2, shape2, dtype2)>>

\* The function was applied to a and b and returned (or threw) r.
Applied(r) ==
    /\ lastOp = Other
    /\ lastOp' = r
    /\ UNCHANGED <<metalVars, graphVars, valueVars>>

\* promoteDataType on the data types of a and b and a third one.
Promote ==
    \E c \in DataTypes :
        Applied([op |-> "promoteDataType", c |-> c,
                 ab |-> promoteDataType(vals[1].m_dType, vals[2].m_dType),
                 ba |-> promoteDataType(vals[2].m_dType, vals[1].m_dType),
                 aa |-> promoteDataType(vals[1].m_dType, vals[1].m_dType),
                 ab_c |-> promoteDataType(promoteDataType(vals[1].m_dType, vals[2].m_dType), c),
                 a_bc |-> promoteDataType(vals[1].m_dType, promoteDataType(vals[2].m_dType, c))])

\* a + b and a * b.
Binary ==
    \E kernel \in {"add", "mul"} :
        Applied([op |-> "binary", kernel |-> kernel,
                 result |-> BinaryOp(kernel, vals[1], vals[2], junk)])

\* a.matmul(b).
Matmul ==
    Applied([op |-> "matmul", result |-> matmul(vals[1], vals[2], junk)])

\* The value of the tensor x + y or x * y; x and y are leaves of values a, b.
TensorValueOf(r) == IF IsErr(r) THEN r ELSE r.nodes[r.h].m_value

TensorOp ==
    \E kernel \in {"add", "mul"} :
        Applied([op |-> "tensor", kernel |-> kernel,
                 result |-> TensorValueOf(
                     TensorBinary(<<TensorNodeOfValue(vals[1], FALSE, junk),
                                    TensorNodeOfValue(vals[2], FALSE, junk)>>,
                                  kernel, 1, 2, junk))])

\* checkBroadcastShapes and broadcastShapes on the shapes of a and b, in both
\* orders.
BroadcastShapes ==
    Applied([op |-> "broadcastShapes",
             check |-> checkBroadcastShapes(vals[1].m_shape, vals[2].m_shape),
             ab |-> BroadcastShapesLoop(vals[1].m_shape, vals[2].m_shape, 0, <<>>),
             ba |-> BroadcastShapesLoop(vals[2].m_shape, vals[1].m_shape, 0, <<>>)])

\* a.transpose(dim0, dim1) and the transpose of the result.
Transposed(dim0, dim1, once) ==
    Applied([op |-> "transpose", dim0 |-> dim0, dim1 |-> dim1, once |-> once,
             twice |-> IF IsErr(once) THEN once ELSE transpose(once, dim0, dim1, junk)])

Transpose ==
    \E dim0 \in 0..MaxPureRank, dim1 \in 0..MaxPureRank :
        Transposed(dim0, dim1, transpose(vals[1], dim0, dim1, junk))

\* a.broadcastTo(shape of b).
BroadcastTo ==
    Applied([op |-> "broadcastTo",
             result |-> broadcastTo(vals[1], vals[2].m_shape, junk)])

\* ones(shape of a).broadcastTo(shape of b).reduceTo(shape of a).
Reduced(broadcast) ==
    Applied([op |-> "reduceTo", broadcast |-> broadcast,
             result |-> IF IsErr(broadcast) THEN broadcast
                        ELSE reduceTo(broadcast, vals[1].m_shape)])

BroadcastReduce ==
    Reduced(broadcastTo(TensorValueFill(1, vals[1].m_shape, vals[1].m_dType),
                        vals[2].m_shape, junk))

NextPure ==
    \/ Promote
    \/ Binary
    \/ Matmul
    \/ TensorOp
    \/ BroadcastShapes
    \/ Transpose
    \/ BroadcastTo
    \/ BroadcastReduce

SpecPure == InitPure /\ [][NextPure]_vars

(***************************************************************************)
(* Ownership of buffers: the constructors, the copy and move operations,   *)
(* the setter device() and the destructor of TensorValue over two devices. *)
(* vals holds the objects (m_data, m_device, m_size; alive until their     *)
(* destructor ran), owned the buffers ever allocated: the device that      *)
(* allocated each and the devices deallocate was called on with it.        *)
(***************************************************************************)
MaxOwners == 3
MaxOwnerBuffers == 4
Devices == {1, 2}
OwnerBuffers == 1..MaxOwnerBuffers

\* The program while an operation runs: ub names the member called through a
\* null Device*, which is undefined behaviour; the build either crashes there
\* (nothing more runs) or the call returns having done nothing.
Program(crash) == [vals |-> vals, bufs |-> owned, ub |-> "none", stopped |-> FALSE,
                   crash |-> crash, ret |-> nil]

NullCall(p, member) ==
    [p EXCEPT !.ub = IF @ = "none" THEN member ELSE @, !.stopped = p.crash, !.ret = nil]

\* device->allocate(size, dtype): a buffer no allocation returned before.
OwnerAllocate(p, device) ==
    IF p.stopped THEN p
    ELSE IF device = nil THEN NullCall(p, "allocate")
    ELSE LET b == CHOOSE x \in OwnerBuffers :
                      /\ p.bufs[x].device = nil
                      /\ \A y \in OwnerBuffers : p.bufs[y].device = nil => x <= y
         IN  [p EXCEPT !.bufs[b].device = device, !.ret = b]

\* device->deallocate(memory); free(nullptr) does nothing.
OwnerDeallocate(p, device, memory) ==
    IF p.stopped THEN p
    ELSE IF device = nil THEN NullCall(p, "deallocate")
    ELSE IF memory = nil THEN p
    ELSE [p EXCEPT !.bufs[memory].freed = Append(@, device)]

\* An assignment to the members of object i, unless the program crashed.
Members(p, i, m_data, m_device, m_size) ==
    IF p.stopped THEN p
    ELSE [p EXCEPT !.vals[i] = [m_data |-> m_data, m_device |-> m_device,
                                m_size |-> m_size, alive |-> TRUE]]

\* A new object, its members not yet assigned.
Declare(p) ==
    [p EXCEPT !.vals = Append(@, [m_data |-> nil, m_device |-> nil, m_size |-> 0,
                                  alive |-> TRUE])]

Alive == {i \in 1..Len(vals) : vals[i].alive}
Unallocated == {b \in OwnerBuffers : owned[b].device = nil}

InitOwner ==
    /\ metal = MetalInit
    /\ owned = [b \in OwnerBuffers |-> [device |-> nil, freed |-> <<>>]]
    /\ vals = <<>>
    /\ nodes = <<>>
    /\ exc = "none"
    /\ junk = 0
    /\ passes = 0
    /\ lastOp = Other

\* The outcome of an operation on objects.
Owns(p, op) ==
    /\ vals' = p.vals
    /\ owned' = p.bufs
    /\ exc' = p.ub
    /\ lastOp' = [op |-> op]
    /\ UNCHANGED <<metal, nodes, junk, passes>>

\* TensorValue v(shape, device).
OwnerConstruct ==
    /\ exc = "none" /\ Len(vals) < MaxOwners /\ Unallocated # {}
    /\ \E device \in Devices :
        LET p1 == OwnerAllocate(Declare(Program(TRUE)), device)
        IN  Owns(Members(p1, Len(vals) + 1, p1.ret, device, 1), "construct")

\* TensorValue v(other).
OwnerCopy ==
    /\ exc = "none" /\ Len(vals) < MaxOwners /\ Unallocated # {}
    /\ \E other \in Alive, crash \in BOOLEAN :
        LET o  == vals[other]
            p1 == OwnerAllocate(Declare(Program(crash)), o.m_device)
        IN  Owns(Members(p1, Len(vals) + 1, p1.ret, o.m_device, o.m_size), "copy")

\* this = other.
OwnerCopyAssign ==
    /\ exc = "none" /\ Unallocated # {}
    /\ \E this \in Alive, other \in Alive, crash \in BOOLEAN :
        LET o  == vals[other]
            p1 == OwnerDeallocate(Program(crash), vals[this].m_device, vals[this].m_data)
            p2 == OwnerAllocate(p1, o.m_device)
        IN  IF this = other THEN Owns(Program(crash), "copyAssign")
            ELSE Owns(Members(p2, this, p2.ret, o.m_device, o.m_size), "copyAssign")

\* TensorValue v(std::move(other)).
OwnerMove ==
    /\ exc = "none" /\ Len(vals) < MaxOwners
    /\ \E other \in Alive :
        LET o  == vals[other]
            p1 == Members(Declare(Program(TRUE)), Len(vals) + 1, o.m_data, o.m_device, o.m_size)
        IN  Owns(Members(p1, other, nil, nil, 0), "move")

\* this = std::move(other).
OwnerMoveAssign ==
    /\ exc = "none"
    /\ \E this \in Alive, other \in Alive, crash \in BOOLEAN :
        LET o  == vals[other]
            p1 == OwnerDeallocate(Program(crash), vals[this].m_device, vals[this].m_data)
            p2 == Members(p1, this, o.m_data, o.m_device, o.m_size)
        IN  IF this = other THEN Owns(Program(crash), "moveAssign")
            ELSE Owns(Members(p2, other, nil, nil, 0), "moveAssign")

\* this.device(device).
OwnerDevice ==
    /\ exc = "none" /\ Unallocated # {}
    /\ \E this \in Alive, device \in Devices, crash \in BOOLEAN :
        LET t  == vals[this]
            p1 == OwnerAllocate(Program(crash), device)
            p2 == OwnerDeallocate(p1, t.m_device, t.m_data)
        IN  IF t.m_device = device THEN Owns(Program(crash), "device")
            ELSE Owns(Members(p2, this, p1.ret, device, t.m_size), "device")

\* The destructor of an object; the object is not used afterwards.
OwnerDestroy ==
    /\ exc = "none"
    /\ \E this \in Alive :
        LET t  == vals[this]
            p1 == IF t.m_data # nil THEN OwnerDeallocate(Program(TRUE), t.m_device, t.m_data)
                  ELSE Program(TRUE)
        IN  Owns([p1 EXCEPT !.vals[this] = [m_data |-> nil, m_device |-> nil,
                                            m_size |-> t.m_size, alive |-> FALSE]],
                 "destroy")

NextOwner ==
    \/ OwnerConstruct
    \/ OwnerCopy
    \/ OwnerCopyAssign
    \/ OwnerMove
    \/ OwnerMoveAssign
    \/ OwnerDevice
    \/ OwnerDestroy

SpecOwner == InitOwner /\ [][NextOwner]_vars

(***************************************************************************)
(* The reduction loop of DeviceMetal::sum and DeviceMetal::max over the     *)
(* sizes of the operand and the thread-group limits of the pipeline.       *)
(***************************************************************************)
MaxReduceSize == 16
MaxThreadsPerTG == 5

Min(x, y) == IF x <= y THEN x ELSE y

\* The thread groups of dispatchThreads(gridSize, threadsPerTG).
ThreadGroups(gridSize, threadsPerTG) == (gridSize + threadsPerTG - 1) \div threadsPerTG

\* size_t length = a.size - 1 for an operand of n elements and a pipeline
\* whose limit is g threads per thread group (a pipeline runs more than one
\* thread in a group).
InitLoop ==
    /\ NoDevice
    /\ nodes = <<>>
    /\ exc = "none"
    /\ junk = 0
    /\ passes = 0
    /\ \E n \in 1..MaxReduceSize, g \in 2..MaxThreadsPerTG :
        lastOp = [op |-> "reduction", size |-> n, maxThreadsPerTG |-> g,
                  length |-> n - 1, grid |-> 0, groups |-> 0, rounds |-> 0,
                  copied |-> FALSE]

\* One round of the loop: w = min(length + 1, maxThreadsPerTG), a dispatch
\* over length + 1 threads, length = (length - 1) / maxThreadsPerTG.
ReductionRound ==
    /\ lastOp.op = "reduction"
    /\ lastOp.length > 0
    /\ lastOp' = [lastOp EXCEPT
                    !.grid = lastOp.length + 1,
                    !.groups = ThreadGroups(lastOp.length + 1,
                                            Min(lastOp.length + 1, lastOp.maxThreadsPerTG)),
                    !.length = (lastOp.length - 1) \div lastOp.maxThreadsPerTG,
                    !.rounds = @ + 1]
    /\ UNCHANGED <<metalVars, graphVars, valueVars>>

\* The loop has ended: element 0 of the temporary buffer is copied to the
\* result.
ReductionCopy ==
    /\ lastOp.op = "reduction"
    /\ lastOp.length = 0
    /\ ~lastOp.copied
    /\ lastOp' = [lastOp EXCEPT !.copied = TRUE]
    /\ UNCHANGED <<metalVars, graphVars, valueVars>>

NextLoop == ReductionRound \/ ReductionCopy

SpecLoop == InitLoop /\ [][NextLoop]_vars

(***************************************************************************)
(* Properties of the Metal backend (specification Spec).                   *)
(***************************************************************************)
\* The buffers the command buffers in flight reference / hold for recycling.
InFlightRefs == UNION {metal.queue[i].refs : i \in 1..Len(metal.queue)}
InFlightTemps == UNION {metal.queue[i].tempBuffers : i \in 1..Len(metal.queue)}

\* C1: a buffer on a deferred-free list reaches the cache only through the
\* completion handler of the command buffer committed with that list: no
\* cached buffer is referenced by the command buffer being built or by one
\* still executing, and none is still on a deferred-free list.
C1_RecycleOnlyOnCompletion ==
    /\ metal.cache \cap (metal.cmdRefs \cup InFlightRefs) = {}
    /\ metal.cache \cap (metal.m_tempBuffers \cup InFlightTemps) = {}

\* C1 witness: a command buffer is executing whose deferred-free list holds a
\* buffer it references, while the next command buffer is being built.
C1_Witness ==
    /\ metal.queue # <<>>
    /\ Head(metal.queue).tempBuffers \cap Head(metal.queue).refs # {}
    /\ metal.cmdRefs # {}

\* C2: at most one committed command buffer is incomplete at any time.
C2_AtMostOneInFlight == Len(metal.queue) <= 1

\* C2 witness: one command buffer in flight and one being built.
C2_Witness == Len(metal.queue) = 1 /\ metal.cmdCount > 0

\* C3: when synchronize() has returned, no dispatch is encoded but uncommitted
\* and no command buffer is in flight.
C3_SynchronizeDrains ==
    lastOp.op = "synchronize" =>
        /\ metal.cmdCount = 0
        /\ metal.m_currentBatchSize = 0
        /\ metal.queue = <<>>

\* C3 witness: synchronize() has returned after work had been committed.
C3_Witness ==
    /\ lastOp.op = "synchronize"
    /\ metal.m_committedCmdBuffer
    /\ metal.cache # {}

\* The last operation was an add or a copy with a kFloat64 operand.
F64OpReturned == lastOp.op \in {"add", "copy", "copyImmediate"} /\ lastOp.f64

\* C4 as stated: an add or a copy of kFloat64 data completes without an error.
C4_F64Completes == F64OpReturned => metal.threw = "none"

\* C4 amended: an add or a copy of kFloat64 data raises std::invalid_argument
\* and no dispatch bound to the null kernel has been encoded.
C4_F64Rejected ==
    F64OpReturned => metal.threw = "invalid_argument" /\ ~metal.nullDispatched

\* C4 witness: an add of kFloat64 data has been rejected while earlier
\* kFloat32 work is still encoded in the current command buffer.
C4_Witness ==
    /\ lastOp.op = "add" /\ lastOp.f64
    /\ metal.threw = "invalid_argument"
    /\ metal.cmdCount > 0

\* C21: when an operation runs the CPU kernel, no dispatch is left in the
\* current command buffer and no committed command buffer is still in flight:
\* all work encoded before the call is committed and has completed.
C21_FallbackRunsAfterCompletion ==
    (lastOp.op \in {"reduceTo", "argmax"} /\ lastOp.cpu) =>
        /\ metal.cmdCount = 0
        /\ metal.m_currentBatchSize = 0
        /\ metal.queue = <<>>

\* A CPU kernel ran in an operation called with work encoded or in flight.
C21_Witness ==
    /\ lastOp.op = "reduceTo"
    /\ lastOp.cpu
    /\ lastOp.pending > 0
    /\ metal.threw = "none"

\* A step of the GPU, and a step in which add or copy was called and returned.
GpuStep ==
    /\ metal.queue # <<>>
    /\ metal' = CompleteHead(metal)
    /\ UNCHANGED <<owned, lastOp>>

OrdinaryStep == lastOp'.op \in {"add", "copy"} /\ ~GpuStep

\* C22 as stated: add and copy never wait for a command buffer to complete:
\* every command buffer in flight when the operation is called is still in
\* flight, in its place, when it returns.
C22_OrdinaryOpNeverWaits ==
    [][OrdinaryStep =>
          /\ Len(metal'.queue) >= Len(metal.queue)
          /\ SubSeq(metal'.queue, 1, Len(metal.queue)) = metal.queue]_vars

\* C22: add and copy wait for a command buffer only to commit. A call that
\* commits nothing waits for nothing; a call commits only when dispatches
\* were pending before it, it waits then for the command buffers committed
\* before, and it returns with the command buffer it committed in flight.
C22_OrdinaryOpWaitsOnlyToCommit ==
    [][OrdinaryStep =>
          \/ metal'.queue = metal.queue
          \/ /\ metal.m_currentBatchSize > 0
             /\ Len(metal'.queue) = 1
             /\ metal'.queue[1].dispatches > 0
             /\ metal'.m_committedCmdBuffer]_vars

\* An add filled the batch and returned with the command buffer it committed
\* in flight.
C22_Witness ==
    /\ lastOp.op = "add"
    /\ metal.threw = "none"
    /\ metal.m_currentBatchSize = 0
    /\ Len(metal.queue) = 1
    /\ metal.queue[1].dispatches = MAX_CMD_BATCH_SIZE

\* C23: whenever an operation has returned, m_currentBatchSize is the number
\* of dispatches encoded into the current command buffer and is below
\* MAX_CMD_BATCH_SIZE, and every committed command buffer holds at least one
\* dispatch; an ordinary op that returns normally either adds one dispatch to
\* the batch, or commits on the dispatch that makes the counter reach
\* MAX_CMD_BATCH_SIZE and leaves the counter at 0, or commits the pending
\* dispatches in newBuffer and starts a new batch with its own dispatch.
BatchCounterInvariant ==
    /\ metal.m_currentBatchSize = metal.cmdCount
    /\ metal.m_currentBatchSize < MAX_CMD_BATCH_SIZE
    /\ \A i \in 1..Len(metal.queue) :
          /\ metal.queue[i].dispatches > 0
          /\ metal.queue[i].dispatches <= MAX_CMD_BATCH_SIZE

BatchCounterStep ==
    (OrdinaryStep /\ metal'.threw = "none") =>
        \/ /\ metal'.queue = metal.queue
           /\ metal'.m_currentBatchSize = metal.m_currentBatchSize + 1
        \/ /\ Len(metal'.queue) = 1
           /\ metal'.queue[1].dispatches = MAX_CMD_BATCH_SIZE
           /\ metal.m_currentBatchSize + 1 = MAX_CMD_BATCH_SIZE
           /\ metal'.m_currentBatchSize = 0
        \/ /\ Len(metal'.queue) = 1
           /\ metal.m_currentBatchSize > 0
           /\ metal'.queue[1].dispatches = metal.m_currentBatchSize
           /\ metal'.m_currentBatchSize = 1

C23_BatchCounter == []BatchCounterInvariant /\ [][BatchCounterStep]_vars

\* A copy has filled the batch: the command buffer in flight holds
\* MAX_CMD_BATCH_SIZE dispatches and the counter is back at 0.
C23_Witness ==
    /\ lastOp.op = "copy"
    /\ metal.threw = "none"
    /\ metal.m_currentBatchSize = 0
    /\ metal.cmdCount = 0
    /\ metal.queue # <<>>
    /\ metal.queue[Len(metal.queue)].dispatches = MAX_CMD_BATCH_SIZE

\* C24: on every return of newBuffer (here: of allocate) a request that makes
\* m_currentWorkingSetSize * 2 reach m_maxWorkingSetSize while dispatches are
\* pending has committed them, and m_currentWorkingSetSize is the sum of the
\* aligned sizes handed out since the most recent commit, the buffer just
\* handed out included.
AllocateStep == lastOp'.op = "allocate" /\ owned' # owned

CommittedInStep == metal.m_currentBatchSize > 0 /\ metal'.m_currentBatchSize = 0

alignedSize(size) ==
    IF size < vm_page_size
    THEN align(size, ALLOCATION_BYTE_ALIGNMENT_SIZE)
    ELSE align(size, vm_page_size)

C24_WorkingSetCountsHandedOut ==
    [][AllocateStep =>
         \E size \in 1..MaxReqSize :
           LET asize == alignedSize(size)
               since == IF CommittedInStep THEN 0 ELSE metal.m_currentWorkingSetSize
           IN  /\ ( /\ (metal.m_currentWorkingSetSize + asize) * 2 >= m_maxWorkingSetSize
                    /\ metal.m_currentBatchSize > 0 ) => CommittedInStep
               /\ metal'.m_currentWorkingSetSize = since + asize]_vars

\* C26: the reduction loop ends within size - 1 rounds, and the range a round
\* leaves active, length + 1 elements, holds the partial result of every
\* thread group the round dispatched.
C26_RoundKeepsEveryPartial ==
    lastOp.op = "reduction" =>
        /\ lastOp.rounds < lastOp.size
        /\ lastOp.rounds > 0 => lastOp.length + 1 >= lastOp.groups

\* C29: when the backend has been destroyed, no committed command buffer is
\* still executing: every completion handler ran before the cache was cleared.
C29_NothingInFlightAtDestruction ==
    lastOp.op = "destroy" => metal.queue = <<>>

\* C19: no compute dispatch is encoded with a pipeline-table entry bound to
\* the null-kernel stub, whatever the operation and the data types of its
\* arguments.
C19_NullKernelNeverDispatched == ~metal.nullDispatched

\* The device buffers passed to deallocate() that are still tracked.
PendingDeallocations == metal.m_tempBuffers \cap metal.m_allocMap

\* C20: a device buffer passed to deallocate() is not released at once, and
\* with the caller synchronizing it is eventually recycled into the cache and
\* gone from m_allocMap, whether or not a dispatch is encoded in between.
C20_DeallocatedIsRecycled ==
    \A b \in BufIds :
        (b \in PendingDeallocations) ~> (b \in metal.cache /\ b \notin metal.m_allocMap)

\* C27: every buffer that was allocated and not deallocated is the m_data of
\* exactly one living TensorValue, every buffer was deallocated at most once
\* and by the device that allocated it, and no operation called deallocate
\* through a null device.
C27_SingleOwnerSingleFree ==
    /\ exc # "deallocate"
    /\ \A b \in DOMAIN owned :
          /\ Len(owned[b].freed) <= 1
          /\ \A k \in 1..Len(owned[b].freed) : owned[b].freed[k] = owned[b].device
          /\ (owned[b].device # nil /\ owned[b].freed = <<>>) =>
                Cardinality({i \in Alive : vals[i].m_data = b}) = 1

(***************************************************************************)
(* Properties of the autograd graph (specifications SpecGrad, SpecGraph     *)
(* and SpecShapes).                                                        *)
(***************************************************************************)
IsLeaf(n) == nodes[n].m_a = 0 /\ nodes[n].m_b = 0

\* C5: grad() fails with the runtime error of unpopulated gradients for every
\* non-leaf node that did not call retainGrad(), whatever its require_grad
\* flag is, and returns the grad for a leaf with require_grad and for a node
\* with retain_grad.
C5_GradFailsOnNonLeaf ==
    lastOp.op = "grad" =>
        /\ (~IsLeaf(lastOp.t) /\ ~nodes[lastOp.t].m_retainGrad) => exc = "runtime_error"
        /\ (IsLeaf(lastOp.t) /\ nodes[lastOp.t].m_requireGrad) => exc = "none"
        /\ nodes[lastOp.t].m_retainGrad => exc = "none"

\* A backward pass that got as far as building its seed.
PassRun == lastOp.op = "backward" /\ exc # "null_dereference"

\* C6: a backward pass from a sink that requires grad whose seed shape differs
\* from the shape of the sink fails with std::invalid_argument and modifies
\* no grad.
C6_SeedShapeMismatchThrows ==
    (/\ PassRun
     /\ nodes[lastOp.t].m_requireGrad
     /\ lastOp.seedShape # nodes[lastOp.t].m_value.m_shape) =>
        (exc = "invalid_argument" /\ GradsOf(nodes) = lastOp.before)

\* The nodes of a pass in the order a depth-first walk from the sink meets
\* them, parent a before parent b, a node once per path to it.
RECURSIVE PreOrder(_, _)
PreOrder(ns, n) ==
    IF n = 0 THEN <<>>
    ELSE <<n>> \o PreOrder(ns, ns[n].m_a) \o PreOrder(ns, ns[n].m_b)

Occurrences(seq, n) == Cardinality({i \in DOMAIN seq : seq[i] = n})

\* The derivative of the (scalar) value of node s with respect to a leaf: the
\* sum over the paths from s to the leaf of the products of the local
\* derivatives along the path.
RECURSIVE Derivative(_, _, _)
Derivative(ns, s, leaf) ==
    IF s = 0 THEN 0
    ELSE IF s = leaf THEN 1
    ELSE IF ns[s].m_backwardFunc = "addBackwardFunc"
    THEN Derivative(ns, ns[s].m_a, leaf) + Derivative(ns, ns[s].m_b, leaf)
    ELSE IF ns[s].m_backwardFunc = "mulBackwardFunc"
    THEN ns[ns[s].m_b].m_value.data[1] * Derivative(ns, ns[s].m_a, leaf)
         + ns[ns[s].m_a].m_value.data[1] * Derivative(ns, ns[s].m_b, leaf)
    ELSE Derivative(ns, ns[s].m_a, leaf)

\* C7: a backward pass calls TensorNode::backward once per path from the sink
\* to a node, depth-first with parent a before parent b, and adds to the grad
\* of every leaf with require_grad the sum of the contributions of the paths
\* to it, on top of what earlier passes left there.
C7_GradsAccumulateOverPaths ==
    (lastOp.op = "backward" /\ exc = "none") =>
        /\ lastOp.trace = PreOrder(nodes, lastOp.t)
        /\ \A n \in 1..Len(nodes) :
               (IsLeaf(n) /\ nodes[n].m_requireGrad) =>
                   nodes[n].m_grad =
                       [lastOp.before[n] EXCEPT
                           !.data = <<@[1] + Derivative(nodes, lastOp.t, n)>>]

\* The second pass of a program has reached a leaf along two paths.
C7_Witness ==
    /\ lastOp.op = "backward" /\ exc = "none" /\ passes = 2
    /\ \E n \in 1..Len(nodes) :
           /\ IsLeaf(n) /\ nodes[n].m_requireGrad
           /\ Occurrences(lastOp.trace, n) >= 2
           /\ nodes[n].m_grad # lastOp.before[n]

\* z = x * y was built from the leaves x of shape [1,n] and y of shape [m,n],
\* both with require_grad, and z.backward() was the first pass.
BroadcastMulPass(z, x, y) ==
    /\ lastOp.op = "backward" /\ lastOp.overload = "backward(value)" /\ lastOp.t = z
    /\ passes = 1
    /\ nodes[z].m_backwardFunc = "mulBackwardFunc"
    /\ nodes[nodes[z].m_a].m_backwardFunc = "broadcastBackwardFunc"
    /\ nodes[nodes[z].m_b].m_backwardFunc = "broadcastBackwardFunc"
    /\ nodes[nodes[z].m_a].m_a = x /\ nodes[nodes[z].m_b].m_a = y
    /\ x # y /\ IsLeaf(x) /\ IsLeaf(y) /\ nodes[x].m_requireGrad /\ nodes[y].m_requireGrad
    /\ Len(nodes[x].m_value.m_shape) = 2 /\ Len(nodes[y].m_value.m_shape) = 2
    /\ nodes[x].m_value.m_shape[1] = 1
    /\ nodes[x].m_value.m_shape[2] = nodes[y].m_value.m_shape[2]

\* C8: after z = x*y and z.backward(), x of shape [1,n] and y of shape [m,n],
\* x.grad has shape [1,n] and holds the column sums of y, and y.grad has
\* shape [m,n] and holds x in every row.
C8_BroadcastMulGrads ==
    \A z, x, y \in 1..Len(nodes) :
        BroadcastMulPass(z, x, y) =>
            LET m == nodes[y].m_value.m_shape[1]
                n == nodes[y].m_value.m_shape[2]
            IN  /\ exc = "none"
                /\ nodes[x].m_grad.m_shape = <<1, n>>
                /\ nodes[x].m_grad.data =
                       [j \in 1..n |->
                           SumLoop([i \in 1..m |-> nodes[y].m_value.data[(i - 1) * n + j]], 0, m)]
                /\ nodes[y].m_grad.m_shape = <<m, n>>
                /\ nodes[y].m_grad.data =
                       [k \in 1..(m * n) |-> nodes[x].m_value.data[((k - 1) % n) + 1]]

\* C9: the grad of every node has the shape and the data type of the node's
\* value, after the op that built the node and after every backward pass.
C9_GradMatchesValue ==
    \A n \in 1..Len(nodes) :
        /\ nodes[n].m_grad.m_shape = nodes[n].m_value.m_shape
        /\ nodes[n].m_grad.m_dType = nodes[n].m_value.m_dType

\* C25: the require_grad flag of every node an operation built is the logical
\* OR of the flags of its operands (the nodes m_a and m_b refer to).
C25_RequireGradIsOr ==
    \A n \in 1..Len(nodes) :
        nodes[n].m_a # 0 =>
            nodes[n].m_requireGrad =
                ( \/ nodes[nodes[n].m_a].m_requireGrad
                  \/ (nodes[n].m_b # 0 /\ nodes[nodes[n].m_b].m_requireGrad) )

\* C13: an in-place operation on the value of a node changes nothing of the
\* node but the elements of the value: the grad, the flags, the parents, the
\* backward rule, and the shape, the strides and the data type of the value
\* are as they were.
C13_InPlaceKeepsNode ==
    lastOp.op = "inplace" =>
        \A n \in 1..Len(nodes) :
            nodes[n] = [lastOp.before[n] EXCEPT
                           !.m_value = [@ EXCEPT !.data = nodes[n].m_value.data]]

\* A pass that ran to its end, and the non-leaf nodes it reached.
PassDone == lastOp.op = "backward" /\ exc = "none"
ReachedNonLeaves ==
    {n \in 1..Len(nodes) : ~IsLeaf(n) /\ Occurrences(lastOp.trace, n) > 0}

C28_SeedAddedAtMostOnce ==
    (PassDone /\ Occurrences(lastOp.trace, lastOp.t) = 1) =>
        LET t == lastOp.t
            once == nodes[t].m_retainGrad \/ (IsLeaf(t) /\ nodes[t].m_requireGrad)
        IN  /\ nodes[t].m_grad.m_shape = lastOp.before[t].m_shape
            /\ nodes[t].m_grad.data =
                  [i \in 1..Len(lastOp.before[t].data) |->
                      lastOp.before[t].data[i] + (IF once THEN 1 ELSE 0)]

\* A pass ran from a leaf that both requires and retains its grad.
C28_Witness ==
    /\ PassDone
    /\ Occurrences(lastOp.trace, lastOp.t) = 1
    /\ IsLeaf(lastOp.t)
    /\ nodes[lastOp.t].m_requireGrad
    /\ nodes[lastOp.t].m_retainGrad
    /\ nodes[lastOp.t].m_grad.data = <<lastOp.before[lastOp.t].data[1] + 1>>

\* C30: backward() with the default seed shape is defined on a leaf: it reads
\* no member of an absent parent, and a leaf that requires grad receives the
\* seed.
C30_BackwardOnLeafDefined ==
    (/\ lastOp.op = "backward"
     /\ lastOp.overload = "backward(value)"
     /\ IsLeaf(lastOp.t)) =>
        /\ exc = "none"
        /\ nodes[lastOp.t].m_requireGrad =>
              nodes[lastOp.t].m_grad.data =
                  [i \in 1..Len(lastOp.before[lastOp.t].data) |->
                      lastOp.before[lastOp.t].data[i] + 1]

(***************************************************************************)
(* Properties of tensor values (specification SpecValue).                  *)
(***************************************************************************)
\* The C-contiguous strides of a shape: the stride of a dimension is the
\* number of elements of the dimensions after it.
Canonical(shape) ==
    [i \in 1..Len(shape) |-> accumulate(SubSeq(shape, i + 1, Len(shape)))]

\* C14: promoteDataType is commutative, idempotent and associative over the
\* data types of the code, and the value of a + b, a * b, a.matmul(b) and of
\* the tensors x + y, x * y has the data type promoteDataType(a, b).
C14_PromoteIsJoin ==
    /\ lastOp.op = "promoteDataType" =>
          /\ lastOp.ab = lastOp.ba
          /\ lastOp.aa = vals[1].m_dType
          /\ lastOp.ab_c = lastOp.a_bc
    /\ (lastOp.op \in {"binary", "matmul", "tensor"} /\ ~IsErr(lastOp.result)) =>
          lastOp.result.m_dType = promotionTable[DataTypeIndex(vals[1].m_dType) + 1]
                                                [DataTypeIndex(vals[2].m_dType) + 1]

\* An operation on a kFloat32 and a kFloat64 operand returned a value.
C14_Witness ==
    /\ lastOp.op \in {"binary", "matmul", "tensor"}
    /\ ~IsErr(lastOp.result)
    /\ vals[1].m_dType = "kFloat32"
    /\ vals[2].m_dType = "kFloat64"

\* A shape right-aligned in n dimensions, a missing dimension counting as 1.
RightAligned(shape, n) ==
    [i \in 1..n |-> IF i > n - Len(shape) THEN shape[i - (n - Len(shape))] ELSE 1]

Max(x, y) == IF x >= y THEN x ELSE y

\* C15: broadcastShapes(a, b) and broadcastShapes(b, a) end alike (the same
\* shape, or both throw); broadcastShapes returns exactly when
\* checkBroadcastShapes(a, b) is true, and then the result has the rank of the
\* longer shape and each dimension is the maximum of the right-aligned pair.
C15_BroadcastShapesSymmetric ==
    lastOp.op = "broadcastShapes" =>
        LET n == Max(Len(vals[1].m_shape), Len(vals[2].m_shape))
            a == RightAligned(vals[1].m_shape, n)
            b == RightAligned(vals[2].m_shape, n)
        IN  /\ lastOp.ab = lastOp.ba
            /\ (lastOp.ab.err = "none") = lastOp.check
            /\ lastOp.ab.err = "none" =>
                  /\ Len(lastOp.ab.shape) = n
                  /\ \A i \in 1..n : lastOp.ab.shape[i] = Max(a[i], b[i])

\* broadcastShapes returned for two shapes of different rank that differ in a
\* dimension.
C15_Witness ==
    /\ lastOp.op = "broadcastShapes"
    /\ lastOp.ab.err = "none"
    /\ Len(vals[1].m_shape) < Len(vals[2].m_shape)
    /\ \E i \in 1..Len(vals[1].m_shape) :
          vals[1].m_shape[i] > DimFromEnd(vals[2].m_shape, Len(vals[1].m_shape) - i)

\* broadcastShapes threw.
C15_Thrown == lastOp.op = "broadcastShapes" /\ lastOp.ab.err # "none"

\* The index tuples of a shape, zero-based, and the position of the element of
\* an index tuple in the buffer of a contiguous value of that shape.
RECURSIVE Indices(_)
Indices(shape) ==
    IF shape = <<>> THEN {<<>>}
    ELSE {<<first>> \o rest : first \in 0..(Head(shape) - 1), rest \in Indices(Tail(shape))}

RECURSIVE Position(_, _)
Position(idx, shape) ==
    IF idx = <<>> THEN 1
    ELSE Head(idx) * accumulate(Tail(shape)) + Position(Tail(idx), Tail(shape))

Swapped(seq, i, j) ==
    [k \in 1..Len(seq) |-> IF k = i THEN seq[j] ELSE IF k = j THEN seq[i] ELSE seq[k]]

\* C16: for a value t (of size and strides matching its shape) and valid axes
\* i, j, i = j included, t.transpose(i,j).transpose(i,j) has the shape, the
\* strides and the elements of t, and t.transpose(i,j) has the shape of t with
\* i and j swapped, the canonical strides of that shape, and at every index
\* with positions i and j swapped the element t has at the index.
C16_TransposeInvolution ==
    (lastOp.op = "transpose" /\ ~IsErr(lastOp.once)) =>
        LET t == vals[1]
            i == lastOp.dim0 + 1
            j == lastOp.dim1 + 1
        IN  /\ lastOp.twice = t
            /\ lastOp.once.m_shape = Swapped(t.m_shape, i, j)
            /\ lastOp.once.m_strides = Canonical(lastOp.once.m_shape)
            /\ lastOp.once.m_size = t.m_size
            /\ \A idx \in Indices(t.m_shape) :
                  lastOp.once.data[Position(Swapped(idx, i, j), lastOp.once.m_shape)]
                      = t.data[Position(idx, t.m_shape)]

\* A value of shape {2,3} was transposed over its two axes.
C16_Witness ==
    /\ lastOp.op = "transpose"
    /\ ~IsErr(lastOp.once)
    /\ lastOp.dim0 # lastOp.dim1
    /\ vals[1].m_shape = <<2, 3>>
    /\ lastOp.once.data = <<1, 4, 2, 5, 3, 6>>

\* C17: a value of ones of shape s, broadcast to a shape t and reduced to s,
\* has shape s and every element equal to size(t) / size(s).
C17_ReduceOfBroadcastOnes ==
    (lastOp.op = "reduceTo" /\ ~IsErr(lastOp.broadcast)) =>
        /\ lastOp.result.m_shape = vals[1].m_shape
        /\ Len(lastOp.result.data) = accumulate(vals[1].m_shape)
        /\ \A i \in 1..Len(lastOp.result.data) :
              lastOp.result.data[i]
                  = accumulate(vals[2].m_shape) \div accumulate(vals[1].m_shape)

\* C18 as stated: a.broadcastTo(target) returns exactly when every
\* right-aligned pair of dimensions of the source and the target shape is equal
\* or has a 1 on one side, and the result is then contiguous and of the
\* broadcast shape.
C18_BroadcastToEitherSideOne ==
    lastOp.op = "broadcastTo" =>
        LET n == Max(Len(vals[1].m_shape), Len(vals[2].m_shape))
            source == RightAligned(vals[1].m_shape, n)
            target == RightAligned(vals[2].m_shape, n)
        IN  /\ ~IsErr(lastOp.result)
                  = (\A k \in 1..n : source[k] = target[k] \/ source[k] = 1 \/ target[k] = 1)
            /\ ~IsErr(lastOp.result) =>
                  /\ lastOp.result.m_shape = [k \in 1..n |-> Max(source[k], target[k])]
                  /\ lastOp.result.m_strides = Canonical(lastOp.result.m_shape)
                  /\ lastOp.result.m_size = accumulate(lastOp.result.m_shape)

\* C18: a.broadcastTo(target) returns exactly when the source shape is not
\* longer than the target shape and every right-aligned pair of dimensions is
\* equal or has a 1 on the source side; otherwise it throws invalid_argument.
\* The result is contiguous, has the target shape, and holds at every index
\* the element of the source at the index with the stretched positions 0.
C18_BroadcastToSourceOne ==
    lastOp.op = "broadcastTo" =>
        LET n == Len(vals[2].m_shape)
            source == RightAligned(vals[1].m_shape, n)
            target == vals[2].m_shape
        IN  /\ ~IsErr(lastOp.result)
                  = (/\ Len(vals[1].m_shape) <= n
                     /\ \A k \in 1..n : source[k] = target[k] \/ source[k] = 1)
            /\ IsErr(lastOp.result) => lastOp.result = Raise("invalid_argument")
            /\ ~IsErr(lastOp.result) =>
                  /\ lastOp.result.m_shape = target
                  /\ lastOp.result.m_strides = Canonical(target)
                  /\ lastOp.result.m_size = accumulate(target)
                  /\ lastOp.result.m_dType = vals[1].m_dType
                  /\ \A idx \in Indices(target) :
                        lastOp.result.data[Position(idx, target)]
                            = vals[1].data[Position([k \in 1..n |->
                                                        IF source[k] = 1 THEN 0 ELSE idx[k]],
                                                    source)]

\* A value of shape {3} was broadcast to {2,3}.
C18_Witness ==
    /\ lastOp.op = "broadcastTo"
    /\ ~IsErr(lastOp.result)
    /\ vals[1].m_shape = <<3>>
    /\ lastOp.result.m_shape = <<2, 3>>
    /\ lastOp.result.data = <<1, 2, 3, 1, 2, 3>>

\* C12: an operation that leaves by an exception has not called
\* Device::allocate before.
C12_NoAllocationBeforeThrow ==
    lastOp.op = "throw" => lastOp.allocs = 0

\* C10: every value a constructor or an operation produced, and the source
\* of a move, has as size the product of its shape and the canonical strides
\* of its shape.
C10_SizeAndStridesCanonical ==
    \A i \in 1..Len(vals) :
        /\ vals[i].m_size = accumulate(vals[i].m_shape)
        /\ vals[i].m_strides = Canonical(vals[i].m_shape)

====
